---- MODULE Spec2Model ----
(***************************************************************************)
(* pipa: a text-templating language compiled to a linear bytecode program  *)
(* (syntax.rs: lex, ast; ir.rs: gen_ir) and executed by a small VM         *)
(* (vm.rs).  A text is a sequence of Unicode scalar values ("chars"), each *)
(* a one-element TLA+ string; non-ASCII chars are written by code point    *)
(* ("U00E9").  Rust `str` offsets are BYTE offsets, the lexer's offsets    *)
(* are grapheme indices: both are modelled, with their widths.             *)
(***************************************************************************)
EXTENDS Integers, Sequences, FiniteSets, TLC

(***************************************************************************)
(* Results of fallible code: Ok(v), Err(e) (a typed error value), or a     *)
(* panic (unwrap on Err/None, slice or index out of range, unreachable!()).*)
(***************************************************************************)
Ok(v) == [tag |-> "Ok", val |-> v]
Err(e) == [tag |-> "Err", err |-> e]
Panic == [tag |-> "Panic"]

Min(a, b) == IF a <= b THEN a ELSE b

(***************************************************************************)
(* Text layer: UTF-8 widths, byte slicing, grapheme segmentation.          *)
(***************************************************************************)
\* U00E9 (e acute, 2 bytes), U0301 (combining acute accent, 2 bytes,
\* Grapheme_Extend), U20AC (euro sign, 3 bytes); everything else is ASCII.
Utf8Len(c) ==
  CASE c = "U00E9" -> 2
    [] c = "U0301" -> 2
    [] c = "U20AC" -> 3
    [] OTHER -> 1

IsExtend(c) == c = "U0301"
IsControl(c) == c \in {"\n", "\r", "\t"}

RECURSIVE ByteLenUpTo(_, _)
ByteLenUpTo(s, k) == IF k = 0 THEN 0 ELSE ByteLenUpTo(s, k - 1) + Utf8Len(s[k])

\* str::len(): the length in bytes
ByteLen(s) == ByteLenUpTo(s, Len(s))

\* str::is_char_boundary
IsCharBoundary(s, b) == \E k \in 0..Len(s) : ByteLenUpTo(s, k) = b

CharsBefore(s, b) == CHOOSE k \in 0..Len(s) : ByteLenUpTo(s, k) = b

\* str::get(a..b): None unless a <= b <= len and both are char boundaries
StrGet(s, a, b) ==
  IF a <= b /\ IsCharBoundary(s, a) /\ IsCharBoundary(s, b)
  THEN Ok(SubSeq(s, CharsBefore(s, a) + 1, CharsBefore(s, b)))
  ELSE Panic

\* &s[a..b]: panics where get returns None
ByteSlice(s, a, b) == StrGet(s, a, b)

\* &s[a..]
ByteSliceFrom(s, a) == StrGet(s, a, ByteLen(s))

IsAscii(s) == \A k \in 1..Len(s) : Utf8Len(s[k]) = 1

\* UAX #29 extended grapheme clusters, for the chars of the model: no break
\* between CR and LF (GB3), none before an Extend char unless a control
\* precedes it (GB4, GB9); a break everywhere else.
JoinsPrev(s, k) ==
  /\ k > 1
  /\ \/ s[k - 1] = "\r" /\ s[k] = "\n"
     \/ IsExtend(s[k]) /\ ~IsControl(s[k - 1])

RECURSIVE GraphemesFrom(_, _, _)
GraphemesFrom(s, k, acc) ==
  IF k > Len(s) THEN acc
  ELSE IF JoinsPrev(s, k)
       THEN GraphemesFrom(s, k + 1,
              [acc EXCEPT ![Len(acc)] = Append(acc[Len(acc)], s[k])])
       ELSE GraphemesFrom(s, k + 1, Append(acc, <<s[k]>>))

\* UnicodeSegmentation::graphemes(s, true), collected
Graphemes(s) == GraphemesFrom(s, 1, <<>>)

RECURSIVE Concat(_)
Concat(ss) == IF ss = <<>> THEN <<>> ELSE Head(ss) \o Concat(Tail(ss))

(***************************************************************************)
(* syntax.rs: token types and the escape iterator                          *)
(***************************************************************************)
Digits == <<"0", "1", "2", "3", "4", "5", "6", "7", "8", "9">>
DigitSet == {Digits[k] : k \in 1..10}

\* impl Into<TokenType> for &str
TokenTypeOf(t) ==
  CASE t = <<"\n">> \/ t = <<"\r", "\n">> -> "NewLine"
    [] t = <<" ">> \/ t = <<"\t">> -> "Space"
    [] t = <<"?">> -> "MacroExp"
    [] t = <<"{">> -> "CodeBegin"
    [] t = <<"}">> -> "CodeEnd"
    [] t = <<"\\">> -> "EscapeSymbol"
    [] t = <<"$">> -> "FormatSymbol"
    [] t = <<"\"">> -> "Quote"
    [] t = <<"[">> -> "RangeBegin"
    [] t = <<":">> -> "RangeSep"
    [] t = <<"]">> -> "RangeEnd"
    [] t = <<"@">> -> "MacroDef"
    [] Len(t) = 1 /\ t[1] \in DigitSet -> "Int"
    [] t = <<"(">> -> "ExprBegin"
    [] t = <<")">> -> "ExprEnd"
    [] OTHER -> "Literal"

Token(first_char, end_char, token_type) ==
  [token_type |-> token_type, first_char |-> first_char, end_char |-> end_char]

Node(first_char, end_char, inner) ==
  [first_char |-> first_char, end_char |-> end_char, inner |-> inner]

\* Token::as_str / Node::as_str: code[first_char..end_char], a BYTE slice
\* taken at the lexer's grapheme offsets
as_str(n, code) == ByteSlice(code, n.first_char, n.end_char)

\* EscapeIter::next, run to exhaustion: the items (is_escaping, i, t) the
\* iterator yields over the graphemes gs.  An unescaped backslash yields
\* nothing and marks the next grapheme as escaped.
RECURSIVE EscapeItems(_, _, _, _, _)
EscapeItems(gs, offset, k, is_escaping, acc) ==
  IF k > Len(gs) THEN acc
  ELSE IF gs[k] = <<"\\">> /\ ~is_escaping
       THEN EscapeItems(gs, offset, k + 1, TRUE, acc)
       ELSE EscapeItems(gs, offset, k + 1, FALSE,
              Append(acc, [esc |-> is_escaping, i |-> k - 1 + offset, t |-> gs[k]]))

\* EscapeIter::new(s, offset, tokens) followed by iteration
EscapeIter(s, offset) == EscapeItems(Graphemes(s), offset, 1, FALSE, <<>>)

\* Node::as_escaped_string
EscapedChar(it) ==
  IF it.esc /\ it.t = <<"n">> THEN <<"\n">>
  ELSE IF it.esc /\ it.t = <<"t">> THEN <<"\t">>
  ELSE it.t

as_escaped_string(n, code) ==
  LET s == ByteSlice(code, n.first_char, n.end_char) IN
  IF s.tag # "Ok" THEN Panic
  ELSE LET its == EscapeIter(s.val, 0) IN
       Ok(Concat([k \in 1..Len(its) |-> EscapedChar(its[k])]))

(***************************************************************************)
(* syntax.rs: errors                                                        *)
(***************************************************************************)
new_syntax(first_char, expected) ==
  [reason |-> "SyntaxError", first_char |-> first_char, expected |-> expected]
new_name(first_char) == [reason |-> "NameError", first_char |-> first_char]
new_undefined_var(first_char, name) ==
  [reason |-> "UndefinedVar", first_char |-> first_char, name |-> name]
new_array_pipe(first_char) == [reason |-> "ArrayNotPiped", first_char |-> first_char]
new_pipe_no_parent(first_char) == [reason |-> "PipeNoParent", first_char |-> first_char]
new_invalid_array(first_char) == [reason |-> "ArrayNoNewLine", first_char |-> first_char]
new_macro_redefinition(first_char, name) ==
  [reason |-> "MacroRedefinition", first_char |-> first_char, name |-> name]
new_undefined_macro(first_char, name) ==
  [reason |-> "UndefinedMacro", first_char |-> first_char, name |-> name]
new_nesetd_macro(first_char) == [reason |-> "NestedMacro", first_char |-> first_char]
new_empty_macro(first_char) == [reason |-> "EmptyMacro", first_char |-> first_char]
new_type_error(first_char, expected, got) ==
  [reason |-> "TypeError", first_char |-> first_char, expected |-> expected, got |-> got]

(***************************************************************************)
(* syntax.rs: the scanners shared by the lexer and the parser.  `its` is   *)
(* the escape iterator's item list and `pos` the next item to be read; a   *)
(* scanner returns the position after the items it consumed.               *)
(***************************************************************************)
InSeq(x, xs) == \E k \in 1..Len(xs) : xs[k] = x

RECURSIVE expect_symbol(_, _, _, _)
expect_symbol(its, pos, expected, ignore_whitespace) ==
  IF pos > Len(its) THEN [tag |-> "Err", err |-> new_syntax(0, expected), pos |-> pos]
  ELSE LET it == its[pos] IN
       IF ignore_whitespace /\ it.t \in {<<" ">>, <<"\n">>, <<"\r", "\n">>}
       THEN expect_symbol(its, pos + 1, expected, ignore_whitespace)
       ELSE IF InSeq(TokenTypeOf(it.t), expected)
            THEN IF it.esc
                 THEN [tag |-> "Err", err |-> new_syntax(it.i - 1, expected), pos |-> pos + 1]
                 ELSE [tag |-> "Ok", val |-> it.t, pos |-> pos + 1]
            ELSE [tag |-> "Err", err |-> new_syntax(it.i, expected), pos |-> pos + 1]

RECURSIVE find_symbol_from(_, _, _, _)
find_symbol_from(its, pos, expected, c) ==
  IF pos > Len(its) THEN [tag |-> "Err", err |-> new_syntax(c, expected), pos |-> pos]
  ELSE LET it == its[pos] IN
       IF InSeq(TokenTypeOf(it.t), expected) /\ ~it.esc
       THEN [tag |-> "Ok", val |-> it.i, pos |-> pos + 1]
       ELSE find_symbol_from(its, pos + 1, expected, it.i)

find_symbol(its, pos, expected) == find_symbol_from(its, pos, expected, 0)

RECURSIVE find_boundary_from(_, _, _, _, _)
find_boundary_from(c, its, pos, expected, terminator) ==
  IF pos > Len(its) THEN [tag |-> "Ok", val |-> c + 1, pos |-> pos]
  ELSE LET it == its[pos]
           t == IF it.esc THEN "Literal" ELSE TokenTypeOf(it.t)
       IN IF t # expected
          THEN IF InSeq(t, terminator)
               THEN [tag |-> "Ok", val |-> it.i, pos |-> pos + 1]
               ELSE [tag |-> "Err", err |-> new_syntax(it.i, terminator), pos |-> pos + 1]
          ELSE find_boundary_from(it.i, its, pos + 1, expected, terminator)

find_boundary(first_char, its, pos, expected, terminator) ==
  find_boundary_from(first_char, its, pos, expected, terminator)

(***************************************************************************)
(* syntax.rs: lex_code, the lexer of one directive block.  Each arm of the *)
(* match is an operator that takes the result of the arm's scan.           *)
(***************************************************************************)
\* the scan for the closing quote of a string (lex_code, string arm)
RECURSIVE scan_string(_, _, _)
scan_string(its, pos, end) ==
  IF pos > Len(its) THEN [found |-> FALSE, end |-> end, pos |-> pos]
  ELSE IF ~its[pos].esc /\ its[pos].t = <<"\"">>
       THEN [found |-> TRUE, end |-> its[pos].i, pos |-> pos + 1]
       ELSE scan_string(its, pos + 1, its[pos].i)

RECURSIVE lex_code_loop(_, _, _, _, _)
RECURSIVE lex_code_token(_, _, _, _, _, _, _)
RECURSIVE lex_code_string(_, _, _, _, _, _)
RECURSIVE lex_code_string_end(_, _, _, _, _, _, _)
RECURSIVE lex_code_comment(_, _, _, _, _)
RECURSIVE lex_code_name(_, _, _, _, _, _)
RECURSIVE lex_code_range(_, _, _, _, _, _, _)

\* the `@`, `?` and digit arms: the token ends where the scan r says
lex_code_token(first_char, code, its, tokens, i, r, token_type) ==
  IF r.tag # "Ok" THEN Err(r.err)
  ELSE lex_code_loop(first_char, code, its, r.pos,
         Append(tokens, Token(i, r.val, token_type)))

\* the `"` arm, after the scan q for the closing quote
lex_code_string(first_char, code, its, tokens, i, q) ==
  IF ~q.found THEN Err(new_syntax(q.end, <<"Quote">>))
  ELSE lex_code_string_end(first_char, code, its, tokens, i, q.end,
         expect_symbol(its, q.pos, <<"Space", "NewLine">>, FALSE))

\* the `"` arm, after the symbol e that follows the closing quote
lex_code_string_end(first_char, code, its, tokens, i, end, e) ==
  IF e.tag # "Ok" THEN Err(e.err)
  ELSE lex_code_loop(first_char, code, its, e.pos,
         Append(tokens, Token(i, end + 1, "String"))
         \o (IF e.val = <<"\n">> \/ e.val = <<"\r", "\n">>
             THEN <<Token(end, end + 1, "NewLine")>>
             ELSE <<>>))

\* the `#` arm, after the scan r for the end of the line
lex_code_comment(first_char, code, its, tokens, r) ==
  lex_code_loop(first_char, code, its, r.pos,
    IF r.tag = "Ok" THEN Append(tokens, Token(r.val, r.val + 1, "NewLine"))
    ELSE tokens)

\* the name arm, after the scan r for the end of the name
lex_code_name(first_char, code, its, tokens, i, r) ==
  IF r.tag # "Ok" THEN Err(r.err)
  ELSE
  LET end == r.val
      named == Append(tokens, Token(i, end, "Name"))
      token == StrGet(code, i - first_char, end - first_char)
  IN
  IF token.tag # "Ok" THEN Err(new_name(i))
  ELSE IF ~IsAscii(token.val) THEN Err(new_name(i))
  ELSE IF end - first_char + 1 < ByteLen(code)
  THEN lex_code_range(first_char, code, its, named, end, r.pos,
         ByteSlice(code, end - first_char, end - first_char + 1))
  ELSE lex_code_loop(first_char, code, its, r.pos, named)

\* the name arm, `&code[end - first_char..end - first_char + 1] == "["`
lex_code_range(first_char, code, its, tokens, end, pos, next) ==
  IF next.tag # "Ok" THEN Panic
  ELSE IF next.val = <<"[">>
  THEN lex_code_token(first_char, code, its, tokens, end,
         LET n == find_symbol(its, pos, <<"RangeEnd">>) IN
         IF n.tag = "Ok" THEN [n EXCEPT !.val = n.val + 1] ELSE n,
         "Range")
  ELSE lex_code_loop(first_char, code, its, pos, tokens)

lex_code_loop(first_char, code, its, pos, tokens) ==
  IF pos > Len(its) THEN Ok(tokens)
  ELSE
  LET it == its[pos]
      i == it.i
      t == it.t
      p == pos + 1
  IN
  IF it.esc THEN Err(new_syntax(i - 1, <<>>))
  ELSE IF t = <<"@">> THEN
    lex_code_token(first_char, code, its, tokens, i,
      find_boundary(i, its, p, "Literal", <<"Space">>), "MacroDef")
  ELSE IF t = <<"?">> THEN
    lex_code_token(first_char, code, its, tokens, i,
      find_symbol(its, p, <<"Space", "NewLine">>), "MacroExp")
  ELSE IF t = <<"\"">> THEN
    lex_code_string(first_char, code, its, tokens, i, scan_string(its, p, i))
  ELSE IF t = <<"#">> THEN
    lex_code_comment(first_char, code, its, tokens, find_symbol(its, p, <<"NewLine">>))
  ELSE IF t = <<"|">> THEN
    lex_code_loop(first_char, code, its, p, Append(tokens, Token(i, i + 1, "Pipe")))
  ELSE IF Len(t) = 1 /\ t[1] \in DigitSet THEN
    lex_code_token(first_char, code, its, tokens, i,
      find_boundary(i, its, p, "Int", <<"Space", "NewLine">>), "Int")
  ELSE IF t = <<"\n">> \/ t = <<"\r", "\n">> THEN
    lex_code_loop(first_char, code, its, p, Append(tokens, Token(i, i + 1, "NewLine")))
  ELSE IF t = <<" ">> \/ t = <<"\t">> THEN
    lex_code_loop(first_char, code, its, p, tokens)
  ELSE
    lex_code_name(first_char, code, its, tokens, i,
      find_boundary(i, its, p, "Literal", <<"Space", "NewLine", "RangeBegin">>))

lex_code(first_char, code, tokens) ==
  lex_code_loop(first_char, code, EscapeIter(code, first_char), 1, tokens)

(***************************************************************************)
(* syntax.rs: lex                                                          *)
(***************************************************************************)
\* the scan for the `}` that ends a directive block (lex, "find code end")
RECURSIVE scan_code_end(_, _)
scan_code_end(its, pos) ==
  IF pos > Len(its) THEN [tag |-> "Ok", end |-> 0, pos |-> pos]
  ELSE IF ~its[pos].esc /\ its[pos].t = <<"{">>
       THEN [tag |-> "Err", err |-> new_syntax(its[pos].i, <<"CodeEnd">>), pos |-> pos + 1]
       ELSE IF ~its[pos].esc /\ its[pos].t = <<"}">>
            THEN [tag |-> "Ok", end |-> its[pos].i, pos |-> pos + 1]
            ELSE scan_code_end(its, pos + 1)

RECURSIVE lex_loop(_, _, _, _, _, _)
RECURSIVE lex_block_begin(_, _, _, _, _)
RECURSIVE lex_block_end(_, _, _, _, _)
RECURSIVE lex_block_close(_, _, _, _, _, _)
RECURSIVE lex_block_code(_, _, _, _, _, _, _)
RECURSIVE lex_block_tokens(_, _, _, _, _)

\* the `{` arm, after the second `{` (b) was expected
lex_block_begin(code, its, tokens, i, b) ==
  IF b.tag # "Ok" THEN Err(b.err)
  ELSE lex_block_end(code, its, tokens, i + 2, scan_code_end(its, b.pos))

\* the `{` arm, after the scan s for the closing `}`
lex_block_end(code, its, tokens, begin, s) ==
  IF s.tag # "Ok" THEN Err(s.err)
  ELSE lex_block_close(code, its, tokens, begin, s.end,
         expect_symbol(its, s.pos, <<"CodeEnd">>, FALSE))

\* the `{` arm, after the second `}` (e) was expected
lex_block_close(code, its, tokens, begin, end, e) ==
  IF e.tag # "Ok" THEN Err(e.err)
  ELSE lex_block_code(code, its, tokens, begin, end, e.pos, ByteSlice(code, begin, end))

\* the `{` arm: `lex_code(begin, &code[begin..end], &mut tokens)?`
lex_block_code(code, its, tokens, begin, end, pos, block) ==
  IF block.tag # "Ok" THEN Panic
  ELSE lex_block_tokens(code, its, end, pos, lex_code(begin, block.val, tokens))

\* the `{` arm: the next literal begins after the block
lex_block_tokens(code, its, end, pos, r) ==
  IF r.tag # "Ok" THEN r
  ELSE lex_loop(code, its, pos, r.val, end + 2, Min(end + 2, ByteLen(code) - 1))

lex_loop(code, its, pos, tokens, literal_begin, literal_end) ==
  IF pos > Len(its)
  THEN Ok(Append(tokens, Token(literal_begin, literal_end + 1, "Literal")))
  ELSE
  LET it == its[pos]
      i == it.i
      t == it.t
  IN
  IF ~it.esc /\ t = <<"{">> THEN
    lex_block_begin(code, its, Append(tokens, Token(literal_begin, i, "Literal")), i,
      expect_symbol(its, pos + 1, <<"CodeBegin">>, FALSE))
  ELSE IF ~it.esc /\ t = <<"}">> THEN Err(new_syntax(i, <<"CodeBegin">>))
  ELSE IF it.esc /\ t # <<"{">> /\ t # <<"}">>
       THEN Err(new_syntax(i, <<"CodeBegin", "CodeEnd">>))
  ELSE lex_loop(code, its, pos + 1, tokens, literal_begin, i)

lex(code) ==
  IF ByteLen(code) = 0 THEN Ok(<<>>)
  ELSE lex_loop(code, EscapeIter(code, 0), 1, <<>>, 0, 0)

(***************************************************************************)
(* syntax.rs: parse_string, parse_range                                    *)
(***************************************************************************)
\* A usize subtraction whose result would be negative panics (overflow
\* checks are on in the debug and test profiles).
RECURSIVE parse_string_loop(_, _, _, _, _)
RECURSIVE parse_string_expr(_, _, _, _)
RECURSIVE parse_string_name(_, _, _, _)
RECURSIVE parse_string_boundary(_, _, _, _)

\* the `$` arm, after `(` (b) was expected
parse_string_expr(its, nodes, i, b) ==
  IF b.tag # "Ok" THEN Err(b.err)
  ELSE parse_string_name(its, nodes, i, expect_symbol(its, b.pos, <<"Literal">>, FALSE))

\* the `$` arm, after the first char of the name (l) was expected
parse_string_name(its, nodes, i, l) ==
  IF l.tag # "Ok" THEN Err(l.err)
  ELSE parse_string_boundary(its, nodes, i,
         find_boundary(i, its, l.pos, "Literal", <<"ExprEnd">>))

\* the `$` arm, after the scan f for the `)` that ends the name
parse_string_boundary(its, nodes, i, f) ==
  IF f.tag # "Ok" THEN Err(f.err)
  ELSE parse_string_loop(its, f.pos, f.val + 1, f.val + 1,
         Append(nodes, Node(i + 2, f.val, [kind |-> "Name"])))

parse_string_loop(its, pos, first_literal, end_literal, nodes) ==
  IF pos > Len(its)
  THEN IF end_literal < first_literal THEN Panic
       ELSE Ok(IF end_literal - first_literal # 0
               THEN Append(nodes, Node(first_literal, end_literal, [kind |-> "Literal"]))
               ELSE nodes)
  ELSE
  LET it == its[pos]
      i == it.i
  IN
  IF ~it.esc /\ it.t = <<"$">> THEN
    IF i < first_literal THEN Panic
    ELSE parse_string_expr(its,
           IF i - first_literal # 0
           THEN Append(nodes, Node(first_literal, i, [kind |-> "Literal"]))
           ELSE nodes,
           i, expect_symbol(its, pos + 1, <<"ExprBegin">>, FALSE))
  ELSE parse_string_loop(its, pos + 1, first_literal, i, nodes)

string_node(first_char, end_char, r) ==
  IF r.tag # "Ok" THEN r
  ELSE Ok(Node(first_char, end_char, [kind |-> "String", children |-> r.val]))

parse_string(first_char, end_char, string) ==
  string_node(first_char, end_char,
    parse_string_loop(EscapeIter(string, first_char), 1, first_char + 1, 0, <<>>))

RECURSIVE StripZeros(_)
StripZeros(ds) == IF ds # <<>> /\ Head(ds) = "0" THEN StripZeros(Tail(ds)) ELSE ds

DigitValue(d) == (CHOOSE k \in 1..10 : Digits[k] = d) - 1

RECURSIVE DecimalValue(_, _)
DecimalValue(ds, acc) ==
  IF ds = <<>> THEN acc ELSE DecimalValue(Tail(ds), acc * 10 + DigitValue(Head(ds)))

\* usize::MAX on a 64-bit target, 18446744073709551615, as decimal digits
UsizeMaxDigits ==
  <<"1", "8", "4", "4", "6", "7", "4", "4", "0", "7", "3", "7", "0", "9", "5", "5", "1", "6", "1", "5">>

RECURSIVE DigitsLeq(_, _)
DigitsLeq(a, b) ==
  IF a = <<>> THEN TRUE
  ELSE IF Head(a) = Head(b) THEN DigitsLeq(Tail(a), Tail(b))
  ELSE DigitValue(Head(a)) < DigitValue(Head(b))

\* str::parse::<usize>(): an optional `+`, then one or more ASCII digits;
\* Err on an empty string, any other char, or a value above usize::MAX.
\* A value of ten or more significant digits (none occurs in the sources of
\* the model) is represented by 10^9, above every length of the model.
ParseDigits(ds, sig) ==
  IF ds = <<>> \/ \E k \in 1..Len(ds) : ds[k] \notin DigitSet THEN Err("InvalidDigit")
  ELSE IF Len(sig) > Len(UsizeMaxDigits) THEN Err("PosOverflow")
  ELSE IF Len(sig) = Len(UsizeMaxDigits) /\ ~DigitsLeq(sig, UsizeMaxDigits)
  THEN Err("PosOverflow")
  ELSE IF Len(sig) > 9 THEN Ok(1000000000)
  ELSE Ok(DecimalValue(sig, 0))

ParseUnsigned(ds) == ParseDigits(ds, StripZeros(ds))

ParseUsize(s) == ParseUnsigned(IF s # <<>> /\ Head(s) = "+" THEN Tail(s) ELSE s)

None == [some |-> FALSE]
Some(v) == [some |-> TRUE, v |-> v]

\* `token.parse::<usize>().unwrap()` on the slice `token` of the range
unwrap_bound(token) ==
  IF token.tag # "Ok" THEN Panic
  ELSE LET v == ParseUsize(token.val) IN
       IF v.tag # "Ok" THEN Panic ELSE Ok(Some(v.val))

range_node(first_char, end_char, start, end) ==
  IF end.tag # "Ok" THEN end
  ELSE Ok(Node(first_char, end_char, [kind |-> "Range", start |-> start, end |-> end.val]))

\* the end bound, after the scan eb for `]`
range_end_bound(first_char, range, separator, eb) ==
  IF eb.tag # "Ok" THEN Err(eb.err)
  ELSE unwrap_bound(ByteSlice(range, separator - first_char + 1, eb.val - first_char))

\* the end bound, after its first digit (e) was expected
range_end(first_char, range, its, separator, e) ==
  IF e.tag # "Ok" THEN Ok(None)
  ELSE range_end_bound(first_char, range, separator,
         find_boundary(0, its, e.pos, "Int", <<"RangeEnd">>))

\* after the start bound: separator is the offset of `:` and pos the next item
range_tail(first_char, end_char, range, its, start, separator, pos) ==
  IF start.tag # "Ok" THEN start
  ELSE range_node(first_char, end_char, start.val,
         range_end(first_char, range, its, separator,
           expect_symbol(its, pos, <<"Int">>, FALSE)))

\* the start bound, after the scan sb for `:`
range_start_bound(first_char, end_char, range, its, sb) ==
  IF sb.tag # "Ok" THEN Err(sb.err)
  ELSE range_tail(first_char, end_char, range, its,
         unwrap_bound(ByteSlice(range, 1, sb.val - first_char)), sb.val, sb.pos)

\* after the first digit of the start bound (s) was expected
range_start(first_char, end_char, range, its, s) ==
  IF s.tag = "Ok"
  THEN range_start_bound(first_char, end_char, range, its,
         find_boundary(0, its, s.pos, "Int", <<"RangeSep">>))
  ELSE range_tail(first_char, end_char, range, its, Ok(None), first_char + 1, s.pos)

\* after `[` (b) was expected
range_begin(first_char, end_char, range, its, b) ==
  IF b.tag # "Ok" THEN Err(b.err)
  ELSE range_start(first_char, end_char, range, its,
         expect_symbol(its, b.pos, <<"Int">>, FALSE))

range_items(first_char, end_char, range, its) ==
  range_begin(first_char, end_char, range, its,
    expect_symbol(its, 1, <<"RangeBegin">>, FALSE))

parse_range(first_char, end_char, range) ==
  range_items(first_char, end_char, range, EscapeIter(range, first_char))

(***************************************************************************)
(* syntax.rs: ast                                                          *)
(***************************************************************************)
int_node(t, v) ==
  IF v.tag # "Ok" THEN Panic
  ELSE Ok(Node(t.first_char, t.end_char, [kind |-> "Int", value |-> v.val]))

\* the nodes whose token text is parsed: Int, String, Range
parsed_node(t, text) ==
  IF text.tag # "Ok" THEN Panic
  ELSE CASE t.token_type = "Int" -> int_node(t, ParseUsize(text.val))
         [] t.token_type = "String" -> parse_string(t.first_char, t.end_char, text.val)
         [] t.token_type = "Range" -> parse_range(t.first_char, t.end_char, text.val)

\* first pass: one node per token ("parse strings and ranges")
token_node(t, code) ==
  IF t.token_type \in {"Int", "String", "Range"}
  THEN parsed_node(t, as_str(t, code))
  ELSE Ok(Node(t.first_char, t.end_char, [kind |-> t.token_type]))

RECURSIVE token_nodes(_, _, _, _)
RECURSIVE token_nodes_push(_, _, _, _, _)

token_nodes_push(tokens, k, code, nodes, n) ==
  IF n.tag # "Ok" THEN n
  ELSE token_nodes(tokens, k + 1, code, Append(nodes, n.val))

token_nodes(tokens, k, code, nodes) ==
  IF k > Len(tokens) THEN Ok(nodes)
  ELSE token_nodes_push(tokens, k, code, nodes, token_node(tokens[k], code))

\* &n.as_str(code)[1..]: the macro's name, without its `@` or `?`
name_tail(s) == IF s.tag # "Ok" THEN Panic ELSE ByteSliceFrom(s.val, 1)

macro_name(n, code) == name_tail(as_str(n, code))

\* macro_children that takes macro markers into the body: the fault
\* C14_MacroBodies detects
RECURSIVE macro_children_any(_, _, _)
macro_children_any(nodes, k, children) ==
  IF k > Len(nodes) THEN [tag |-> "Ok", val |-> children, pos |-> k]
  ELSE IF nodes[k].inner.kind = "NewLine"
       THEN [tag |-> "Ok", val |-> children, pos |-> k + 1]
       ELSE macro_children_any(nodes, k + 1, Append(children, nodes[k]))

\* the body of a macro definition: the nodes up to the next NewLine
RECURSIVE macro_children(_, _, _)
macro_children(nodes, k, children) ==
  IF k > Len(nodes) THEN [tag |-> "Ok", val |-> children, pos |-> k]
  ELSE LET n == nodes[k] IN
       IF n.inner.kind = "NewLine" THEN [tag |-> "Ok", val |-> children, pos |-> k + 1]
       ELSE IF n.inner.kind \in {"MacroExp", "MacroDef"}
            THEN [tag |-> "Err", err |-> new_nesetd_macro(n.first_char), pos |-> k + 1]
            ELSE macro_children(nodes, k + 1, Append(children, n))

\* lex, then the first pass over its tokens
ast_tokens(code, tokens) ==
  IF tokens.tag # "Ok" THEN tokens
  ELSE token_nodes(tokens.val, 1, code, <<>>)

(***************************************************************************)
(* ir.rs: the helpers of gen_ir.  Instruction and node indices are         *)
(* 0-based as in the source; the element at index k of a list xs is        *)
(* xs[k + 1].                                                              *)
(***************************************************************************)
Upper ==
  {"A", "B", "C", "D", "E", "F", "G", "H", "I", "J", "K", "L", "M",
   "N", "O", "P", "Q", "R", "S", "T", "U", "V", "W", "X", "Y", "Z"}

is_name_reserved(name) == name # <<>> /\ name[1] = "_"

is_name_array(name) == \A k \in 1..Len(name) : name[k] \in Upper

RECURSIVE is_node_pipe(_, _)
is_node_pipe(nodes, index) ==
  IF index >= Len(nodes) THEN FALSE
  ELSE LET kind == nodes[index + 1].inner.kind IN
       IF kind = "Pipe" THEN TRUE
       ELSE IF kind = "NewLine" THEN is_node_pipe(nodes, index + 1)
       ELSE FALSE

RECURSIVE expect_string(_, _)
expect_string(nodes, index) ==
  IF index >= Len(nodes)
  THEN IF index - 1 < 0 \/ index - 1 >= Len(nodes) THEN Panic
       ELSE Err(new_syntax(nodes[index].first_char, <<"String">>))
  ELSE LET n == nodes[index + 1]
           kind == n.inner.kind
       IN
       CASE kind = "String" -> Ok(TRUE)
         [] kind = "Int" -> Err(new_type_error(n.first_char, "String", "Int"))
         [] kind = "Range" -> Err(new_type_error(n.first_char, "String", "Array"))
         [] kind = "Array" -> Err(new_type_error(n.first_char, "String", "Array"))
         [] kind = "Literal" -> Err(new_type_error(n.first_char, "String", "Literal"))
         [] kind = "Name" -> Err(new_type_error(n.first_char, "String", "Name"))
         [] kind = "Pipe" -> Err(new_pipe_no_parent(n.first_char))
         [] kind = "NewLine" -> expect_string(nodes, index + 1)
         [] OTHER -> Panic

unwrap_or(opt, default) == IF opt.some THEN opt.v ELSE default

PutStr(value) == [op |-> "PutStr", value |-> value]
Flush == [op |-> "Flush"]
Collapse == [op |-> "Collapse"]
PutName(name, start, end) == [op |-> "PutName", name |-> name, start |-> start, end |-> end]
SetCounter(value) == [op |-> "SetCounter", value |-> value]
IncCounter == [op |-> "IncCounter"]
LoadCounter == [op |-> "LoadCounter"]
CmpCounterLessJmp(op_index, value, name) ==
  [op |-> "CmpCounterLessJmp", op_index |-> op_index, value |-> value, name |-> name]
CmpArrayEmptyJmp(op_index, start, end, name) ==
  [op |-> "CmpArrayEmptyJmp", op_index |-> op_index, start |-> start, end |-> end,
   name |-> name]
LoadArrayItem(name) == [op |-> "LoadArrayItem", name |-> name]
PutScopeVar(name) == [op |-> "PutScopeVar", name |-> name]
DestroyScope == [op |-> "DestroyScope"]

\* the reserved names the generator binds
Underscore == <<"_">>
ItemName == <<"_", "i", "t", "e", "m", "_">>
IndexName == <<"_", "i", "n", "d", "e", "x", "_">>

\* the instructions of a String node's children (gen_ir, String branch,
\* the loop over children), or the error or panic that ends the loop
RECURSIVE string_children_ops(_, _, _, _, _)
string_children_ops(children, k, code, scope_set, acc) ==
  IF k > Len(children) THEN Ok(acc)
  ELSE
  LET n == children[k] IN
  IF n.inner.kind = "Name" THEN
    LET name == as_str(n, code) IN
    IF name.tag # "Ok" THEN Panic
    ELSE IF name.val \notin scope_set /\ is_name_reserved(name.val)
    THEN Err(new_undefined_var(n.first_char, name.val))
    ELSE string_children_ops(children, k + 1, code, scope_set,
           Append(acc, PutName(name.val, None, None)))
  ELSE IF n.inner.kind = "Literal" THEN
    LET value == as_escaped_string(n, code) IN
    IF value.tag # "Ok" THEN Panic
    ELSE string_children_ops(children, k + 1, code, scope_set,
           Append(acc, PutStr(value.val)))
  ELSE Panic

\* usize::to_string
RECURSIVE to_string(_)
to_string(n) ==
  IF n < 10 THEN <<Digits[n + 1]>>
  ELSE Append(to_string(n \div 10), Digits[(n % 10) + 1])

EmptyMap == [n \in {} |-> <<>>]

\* BTreeMap::insert
Insert(map, key, value) ==
  [n \in DOMAIN map \cup {key} |-> IF n = key THEN value ELSE map[n]]

(***************************************************************************)
(* State.  The pipeline is the one of lib.rs (test_str): ast, gen_ir,      *)
(* Vm::new, Vm::run.                                                       *)
(***************************************************************************)
VARIABLES
  code,         \* the source text
  vars,         \* Vm.vars: the external string variables
  arrays,       \* Vm.arrays: the external arrays
  phase,        \* "ast", "expand", "gen_ir", "run" or "done"
  parsed,       \* ast: the nodes of the first pass, one per token
  iter,         \* ast: how many of them the second pass has consumed
  macro_table,  \* ast: the macro table, from names to node lists
  expanded,     \* ast: the nodes the second pass has produced so far
  ast_result,   \* what ast returned
  nodes,        \* the node list given to gen_ir
  i,            \* gen_ir: index of the node being visited
  ops,          \* gen_ir: the instructions emitted so far; then the program
  array_start,  \* gen_ir: the pending loop, Some(<<node index, op index>>)
  ir_scope,     \* gen_ir: the local `scope` set
  ir_result,    \* what gen_ir returned
  counter,      \* Vm.counter
  pc,           \* Vm.pc
  stack,        \* Vm.stack
  scope,        \* Vm.scope
  out,          \* the text written to the sink
  run_result    \* what Vm::run returned

input == <<code, vars, arrays>>
expansion == <<parsed, iter, macro_table, expanded>>
gen == <<i, ops, array_start, ir_scope, ir_result>>
vm == <<counter, pc, stack, scope, out, run_result>>
state == <<code, vars, arrays, phase, parsed, iter, macro_table, expanded,
           expansion, ast_result, nodes, i, ops, array_start, ir_scope, ir_result,
           counter, pc, stack, scope, out, run_result>>

Pending == [tag |-> "None"]

(***************************************************************************)
(* syntax.rs: ast, called on the source                                    *)
(***************************************************************************)
\* the first pass has ended: with the nodes, or with its error or panic
AstParsed(r) ==
  /\ parsed' = IF r.tag = "Ok" THEN r.val ELSE <<>>
  /\ ast_result' = IF r.tag = "Ok" THEN Pending ELSE r
  /\ phase' = IF r.tag = "Ok" THEN "expand" ELSE "done"

\* lex and the first pass, "parse strings and ranges"
Ast ==
  /\ phase = "ast"
  /\ AstParsed(ast_tokens(code, lex(code)))
  /\ UNCHANGED <<input, iter, macro_table, expanded, nodes, gen, vm>>

\* the second pass, "expand macros and convert 'Name' + 'Range' to 'Array'":
\* one action per arm of the match on the node the iterator yields
Expanding(kind) ==
  /\ phase = "expand"
  /\ iter < Len(parsed)
  /\ parsed[iter + 1].inner.kind = kind

\* ast returns Err(e), or panics
AstFail(r) ==
  /\ ast_result' = r
  /\ phase' = "done"
  /\ UNCHANGED <<iter, macro_table, expanded, nodes>>

\* the second pass goes on at position next
AstContinue(next) ==
  /\ iter' = next
  /\ UNCHANGED <<phase, ast_result, nodes>>

\* AstMacroDef without the test for a name already in the table, so that a
\* second definition replaces the first: the fault C12_MacroWriteOnce detects
AstMacroDefOverwrite ==
  /\ Expanding("MacroDef")
  /\ LET n == parsed[iter + 1]
         name == macro_name(n, code)
         c == macro_children(parsed, iter + 2, <<>>)
     IN
     IF name.tag # "Ok" THEN AstFail(Panic)
     ELSE IF c.tag # "Ok" THEN AstFail(Err(c.err))
     ELSE IF Len(c.val) = 0 THEN AstFail(Err(new_empty_macro(n.first_char)))
     ELSE /\ macro_table' = Insert(macro_table, name.val, c.val)
          /\ AstContinue(c.pos - 1)
          /\ UNCHANGED expanded
  /\ UNCHANGED <<input, parsed, gen, vm>>

AstMacroDef ==
  /\ Expanding("MacroDef")
  /\ LET n == parsed[iter + 1]
         name == macro_name(n, code)
         c == macro_children(parsed, iter + 2, <<>>)
     IN
     IF name.tag # "Ok" THEN AstFail(Panic)
     ELSE IF name.val \in DOMAIN macro_table
     THEN AstFail(Err(new_macro_redefinition(n.first_char, name.val)))
     ELSE IF c.tag # "Ok" THEN AstFail(Err(c.err))
     ELSE IF Len(c.val) = 0 THEN AstFail(Err(new_empty_macro(n.first_char)))
     ELSE /\ macro_table' = Insert(macro_table, name.val, c.val)
          /\ AstContinue(c.pos - 1)
          /\ UNCHANGED expanded
  /\ UNCHANGED <<input, parsed, gen, vm>>

\* AstMacroExp that expands an undefined macro to nothing: the fault
\* C13_UndefinedMacro detects
AstMacroExpLenient ==
  /\ Expanding("MacroExp")
  /\ LET name == macro_name(parsed[iter + 1], code) IN
     IF name.tag # "Ok" THEN AstFail(Panic)
     ELSE /\ expanded' = expanded \o (IF name.val \in DOMAIN macro_table
                                      THEN macro_table[name.val] ELSE <<>>)
          /\ AstContinue(iter + 1)
          /\ UNCHANGED macro_table
  /\ UNCHANGED <<input, parsed, gen, vm>>

AstMacroExp ==
  /\ Expanding("MacroExp")
  /\ LET n == parsed[iter + 1]
         name == macro_name(n, code)
     IN
     IF name.tag # "Ok" THEN AstFail(Panic)
     ELSE IF name.val \in DOMAIN macro_table
     THEN /\ expanded' = expanded \o macro_table[name.val]
          /\ AstContinue(iter + 1)
          /\ UNCHANGED macro_table
     ELSE AstFail(Err(new_undefined_macro(n.first_char, name.val)))
  /\ UNCHANGED <<input, parsed, gen, vm>>

\* Name arm: the next node is taken with the name; a Range is fused with it
\* into an Array node, any other node is pushed as it is; a name that is the
\* last node is dropped
AstName ==
  /\ Expanding("Name")
  /\ LET n == parsed[iter + 1]
         name == as_str(n, code)
     IN
     IF iter + 1 >= Len(parsed)
     THEN AstContinue(iter + 1) /\ UNCHANGED <<macro_table, expanded>>
     ELSE IF parsed[iter + 2].inner.kind # "Range"
     THEN /\ expanded' = expanded \o <<n, parsed[iter + 2]>>
          /\ AstContinue(iter + 2)
          /\ UNCHANGED macro_table
     ELSE IF name.tag # "Ok" THEN AstFail(Panic)
     ELSE /\ expanded' =
               Append(expanded,
                 Node(n.first_char, parsed[iter + 2].end_char,
                   [kind |-> "Array", name |-> name.val,
                    start |-> parsed[iter + 2].inner.start,
                    end |-> parsed[iter + 2].inner.end]))
          /\ AstContinue(iter + 2)
          /\ UNCHANGED macro_table
  /\ UNCHANGED <<input, parsed, gen, vm>>

AstNewLine ==
  /\ Expanding("NewLine")
  /\ AstContinue(iter + 1)
  /\ UNCHANGED <<input, parsed, macro_table, expanded, gen, vm>>

\* `_ => expanded.push(n)`
AstPush ==
  /\ phase = "expand"
  /\ iter < Len(parsed)
  /\ parsed[iter + 1].inner.kind \notin {"MacroDef", "MacroExp", "Name", "NewLine"}
  /\ expanded' = Append(expanded, parsed[iter + 1])
  /\ AstContinue(iter + 1)
  /\ UNCHANGED <<input, parsed, macro_table, gen, vm>>

\* the iterator is exhausted: ast returns Ok(expanded), given to gen_ir
AstReturn ==
  /\ phase = "expand"
  /\ iter >= Len(parsed)
  /\ ast_result' = Ok(expanded)
  /\ nodes' = expanded
  /\ phase' = "gen_ir"
  /\ UNCHANGED <<input, expansion, gen, vm>>

(***************************************************************************)
(* ir.rs: gen_ir, one action per arm of the match on the node kind         *)
(***************************************************************************)
Visiting(kind) ==
  /\ phase = "gen_ir"
  /\ i < Len(nodes)
  /\ nodes[i + 1].inner.kind = kind

\* gen_ir returns Err(e), or panics
IrFail(r) ==
  /\ ir_result' = r
  /\ phase' = "done"
  /\ UNCHANGED <<i, ops, array_start, ir_scope>>

\* the shared tail of the Int, Name, slice and piped String arms: bind `_`
\* when the node is piped, flush when it is not
IrPipeOrFlush(emitted) ==
  IF is_node_pipe(nodes, i + 1)
  THEN LET e == expect_string(nodes, i + 2) IN
       IF e.tag # "Ok" THEN IrFail(e)
       ELSE /\ ops' = ops \o emitted \o <<PutScopeVar(Underscore)>>
            /\ ir_scope' = ir_scope \cup {Underscore}
            /\ i' = i + 2
            /\ UNCHANGED <<array_start, ir_result, phase>>
  ELSE /\ ops' = ops \o emitted \o <<Flush>>
       /\ i' = i + 1
       /\ UNCHANGED <<array_start, ir_scope, ir_result, phase>>

IrLiteral ==
  /\ Visiting("Literal")
  /\ LET value == as_escaped_string(nodes[i + 1], code) IN
     IF value.tag # "Ok" THEN IrFail(Panic)
     ELSE /\ ops' = ops \o <<PutStr(value.val), Flush>>
          /\ i' = i + 1
          /\ UNCHANGED <<array_start, ir_scope, ir_result, phase>>
  /\ UNCHANGED <<input, expansion, ast_result, nodes, vm>>

IrInt ==
  /\ Visiting("Int")
  /\ LET value == as_str(nodes[i + 1], code) IN
     IF value.tag # "Ok" THEN IrFail(Panic)
     ELSE IrPipeOrFlush(<<PutStr(value.val)>>)
  /\ UNCHANGED <<input, expansion, ast_result, nodes, vm>>

IrName ==
  /\ Visiting("Name")
  /\ LET node == nodes[i + 1]
         name == as_str(node, code)
     IN
     IF name.tag # "Ok" THEN IrFail(Panic)
     ELSE IF is_name_reserved(name.val)
     THEN IrFail(Err(new_undefined_var(node.first_char, name.val)))
     ELSE IrPipeOrFlush(<<PutName(name.val, None, None)>>)
  /\ UNCHANGED <<input, expansion, ast_result, nodes, vm>>

\* IrArrayLoop without the test that a pipe follows the array: the fault
\* C10_ArrayNotPiped detects
IrArrayLoopUnchecked ==
  /\ Visiting("Array")
  /\ is_name_array(nodes[i + 1].inner.name)
  /\ LET node == nodes[i + 1]
         e == expect_string(nodes, i + 2)
     IN
     IF e.tag # "Ok" THEN IrFail(e)
     ELSE /\ ops' = ops \o
               <<SetCounter(unwrap_or(node.inner.start, 0)),
                 CmpArrayEmptyJmp(0, node.inner.start, node.inner.end, node.inner.name),
                 LoadArrayItem(node.inner.name),
                 PutScopeVar(ItemName),
                 LoadCounter,
                 PutScopeVar(IndexName)>>
          /\ array_start' = Some(<<i, Len(ops) + 1>>)
          /\ ir_scope' = ir_scope \cup {ItemName, IndexName}
          /\ i' = i + 2
          /\ UNCHANGED <<ir_result, phase>>
  /\ UNCHANGED <<input, expansion, ast_result, nodes, vm>>

\* Array arm, is_name_array(name): the head of a loop
IrArrayLoop ==
  /\ Visiting("Array")
  /\ is_name_array(nodes[i + 1].inner.name)
  /\ LET node == nodes[i + 1]
         name == node.inner.name
         start == node.inner.start
         end == node.inner.end
     IN
     IF ~is_node_pipe(nodes, i + 1) THEN IrFail(Err(new_array_pipe(node.first_char)))
     ELSE LET e == expect_string(nodes, i + 2) IN
          IF e.tag # "Ok" THEN IrFail(e)
          ELSE /\ ops' = ops \o
                    <<SetCounter(unwrap_or(start, 0)),
                      CmpArrayEmptyJmp(0, start, end, name),
                      LoadArrayItem(name),
                      PutScopeVar(ItemName),
                      LoadCounter,
                      PutScopeVar(IndexName)>>
               /\ array_start' = Some(<<i, Len(ops) + 1>>)
               /\ ir_scope' = ir_scope \cup {ItemName, IndexName}
               /\ i' = i + 2
               /\ UNCHANGED <<ir_result, phase>>
  /\ UNCHANGED <<input, expansion, ast_result, nodes, vm>>

\* Array arm, otherwise: a slice of a string variable
IrArraySlice ==
  /\ Visiting("Array")
  /\ ~is_name_array(nodes[i + 1].inner.name)
  /\ LET node == nodes[i + 1]
         name == node.inner.name
     IN
     IF name \notin ir_scope /\ is_name_reserved(name)
     THEN IrFail(Err(new_undefined_var(node.first_char, name)))
     ELSE IrPipeOrFlush(<<PutName(name, node.inner.start, node.inner.end)>>)
  /\ UNCHANGED <<input, expansion, ast_result, nodes, vm>>

\* close_loop that leaves the placeholder target of the loop's
\* CmpArrayEmptyJmp in place: the fault C20_LoopsClosed detects
close_loop_unpatched(emitted) ==
  LET node_i == array_start.v[1]
      op_i == array_start.v[2]
      head == nodes[node_i + 1].inner
  IN
  IF emitted[op_i + 1].op # "CmpArrayEmptyJmp" \/ head.kind # "Array" THEN Panic
  ELSE Ok(emitted \o <<IncCounter, CmpCounterLessJmp(op_i, head.end, head.name)>>)

\* the close of the pending loop (String arm, `if let Some(..) = array_start`):
\* patch the loop's CmpArrayEmptyJmp and emit the backward jump
close_loop(emitted) ==
  LET node_i == array_start.v[1]
      op_i == array_start.v[2]
      len == Len(emitted)
      head == nodes[node_i + 1].inner
  IN
  IF emitted[op_i + 1].op # "CmpArrayEmptyJmp" \/ head.kind # "Array" THEN Panic
  ELSE Ok([emitted EXCEPT ![op_i + 1].op_index = len + 1]
          \o <<IncCounter, CmpCounterLessJmp(op_i, head.end, head.name)>>)

IrString ==
  /\ Visiting("String")
  /\ LET node == nodes[i + 1]
         body == string_children_ops(node.inner.children, 1, code, ir_scope, <<>>)
     IN
     IF body.tag # "Ok" THEN IrFail(body)
     ELSE IF is_node_pipe(nodes, i + 1)
     THEN IrPipeOrFlush(body.val \o <<Collapse>>)
     ELSE LET emitted == ops \o body.val \o <<Collapse, Flush, DestroyScope>> IN
          IF array_start.some
          THEN LET closed == close_loop(emitted) IN
               IF closed.tag # "Ok" THEN IrFail(Panic)
               ELSE /\ ops' = closed.val
                    /\ array_start' = None
                    /\ ir_scope' = {}
                    /\ i' = i + 1
                    /\ UNCHANGED <<ir_result, phase>>
          ELSE /\ ops' = emitted
               /\ i' = i + 1
               /\ UNCHANGED <<array_start, ir_scope, ir_result, phase>>
  /\ UNCHANGED <<input, expansion, ast_result, nodes, vm>>

IrNewLine ==
  /\ Visiting("NewLine")
  /\ i' = i + 1
  /\ UNCHANGED <<input, phase, expansion, ast_result, nodes, ops, array_start, ir_scope,
                 ir_result, vm>>

\* IrPipe that passes over a pipe without a parent: the fault
\* C11_PipeNoParent detects
IrPipeIgnored ==
  /\ Visiting("Pipe")
  /\ i' = i + 1
  /\ UNCHANGED <<input, phase, expansion, ast_result, nodes, ops, array_start,
                 ir_scope, ir_result, vm>>

IrPipe ==
  /\ Visiting("Pipe")
  /\ IrFail(Err(new_pipe_no_parent(nodes[i + 1].first_char)))
  /\ UNCHANGED <<input, expansion, ast_result, nodes, vm>>

IrRange ==
  /\ Visiting("Range")
  /\ IrFail(Err(new_invalid_array(nodes[i + 1].first_char)))
  /\ UNCHANGED <<input, expansion, ast_result, nodes, vm>>

\* `_ => unreachable!()`: a MacroDef or MacroExp node
IrUnreachable ==
  /\ phase = "gen_ir"
  /\ i < Len(nodes)
  /\ nodes[i + 1].inner.kind \in {"MacroDef", "MacroExp"}
  /\ IrFail(Panic)
  /\ UNCHANGED <<input, expansion, ast_result, nodes, vm>>

\* the end of the node list: gen_ir returns Ok(ops); the VM is then run on it
IrReturn ==
  /\ phase = "gen_ir"
  /\ i >= Len(nodes)
  /\ ir_result' = Ok(ops)
  /\ phase' = "run"
  /\ UNCHANGED <<input, expansion, ast_result, nodes, i, ops, array_start, ir_scope, vm>>

(***************************************************************************)
(* vm.rs: Vm::run, one action per arm of the match in Vm::step             *)
(***************************************************************************)
\* get_string_var that looks a reserved name up in the external table when
\* the scope does not hold it: the fault C16_Fetch detects
get_string_var_external(name) ==
  IF is_name_reserved(name) /\ name \in DOMAIN scope THEN Ok(scope[name])
  ELSE IF name \in DOMAIN vars THEN Ok(vars[name]) ELSE Ok(<<>>)

\* Vm::get_string_var
get_string_var(name) ==
  IF is_name_reserved(name)
  THEN IF name \in DOMAIN scope THEN Ok(scope[name]) ELSE Err("UndefinedScopeVar")
  ELSE IF name \in DOMAIN vars THEN Ok(vars[name]) ELSE Ok(<<>>)

\* Vm::get_array_var
get_array_var(name) == IF name \in DOMAIN arrays THEN arrays[name] ELSE <<>>

\* the slice pushed by PutName: graphemes[start], ..., graphemes[end - 1],
\* where end is clamped to the length of the value in BYTES; indexing the
\* grapheme list out of range panics
put_name_end(var, end) == Min(ByteLen(var), unwrap_or(end, ByteLen(var)))

put_name_output(var, start, end) ==
  LET graphemes == Graphemes(var)
      from == unwrap_or(start, 0)
      to == put_name_end(var, end)
  IN
  IF from >= to THEN Ok(<<>>)
  ELSE IF to > Len(graphemes) THEN Panic
  ELSE Ok(Concat(SubSeq(graphemes, from + 1, to)))

\* Vm::run is looping over Vm::step: the first run of the program, or the
\* run after Vm::clear_state
Running == phase \in {"run", "rerun"}

Executing(op) ==
  /\ Running
  /\ pc < Len(ops)
  /\ ops[pc + 1].op = op

\* RunReturn that records the result and leaves the loop of Vm::run running:
\* the fault C17_FaultEndsRun detects
RunReturnKeepRunning(r) ==
  /\ run_result' = r
  /\ UNCHANGED phase

\* Vm::run returns r (or the step panics)
RunReturn(r) ==
  /\ run_result' = r
  /\ phase' = IF phase = "rerun" THEN "redone" ELSE "done"

\* Advance without the increment after a taken jump: the fault
\* C19_JumpThenIncrement detects
AdvanceToTarget(from) ==
  /\ pc' = IF from = pc THEN pc + 1 ELSE from
  /\ UNCHANGED <<phase, run_result>>

\* `self.pc += 1; Ok(())`
Advance(from) ==
  /\ pc' = from + 1
  /\ UNCHANGED <<phase, run_result>>

StepPutStr ==
  /\ Executing("PutStr")
  /\ stack' = Append(stack, ops[pc + 1].value)
  /\ Advance(pc)
  /\ UNCHANGED <<input, expansion, ast_result, nodes, gen, counter, scope, out>>

Reverse(items) == [k \in 1..Len(items) |-> items[Len(items) + 1 - k]]

\* StepFlush that writes the stack from its top down: the fault
\* C15_FlushCollapse detects
StepFlushReversed ==
  /\ Executing("Flush")
  /\ stack' = <<>>
  /\ \/ /\ out' = out \o Concat(Reverse(stack))
        /\ Advance(pc)
     \/ \E k \in 1..Len(stack) :
          /\ stack[k] # <<>>
          /\ out' = out \o Concat(SubSeq(stack, 1, k - 1))
          /\ RunReturn(Err("WriteError"))
          /\ UNCHANGED pc
  /\ UNCHANGED <<input, expansion, ast_result, nodes, gen, counter, scope>>

\* every item is written in turn; a write the sink refuses ends the run
\* with WriteError, the items before it written and the stack drained
StepFlush ==
  /\ Executing("Flush")
  /\ stack' = <<>>
  /\ \/ /\ out' = out \o Concat(stack)
        /\ Advance(pc)
     \/ \E k \in 1..Len(stack) :
          /\ stack[k] # <<>>
          /\ out' = out \o Concat(SubSeq(stack, 1, k - 1))
          /\ RunReturn(Err("WriteError"))
          /\ UNCHANGED pc
  /\ UNCHANGED <<input, expansion, ast_result, nodes, gen, counter, scope>>

StepCollapse ==
  /\ Executing("Collapse")
  /\ stack' = <<Concat(stack)>>
  /\ Advance(pc)
  /\ UNCHANGED <<input, expansion, ast_result, nodes, gen, counter, scope, out>>

StepPutName ==
  /\ Executing("PutName")
  /\ LET o == ops[pc + 1]
         var == get_string_var(o.name)
         output == put_name_output(var.val, o.start, o.end)
     IN
     IF var.tag # "Ok" THEN RunReturn(var) /\ UNCHANGED <<pc, stack>>
     ELSE IF output.tag # "Ok" THEN RunReturn(Panic) /\ UNCHANGED <<pc, stack>>
     ELSE stack' = Append(stack, output.val) /\ Advance(pc)
  /\ UNCHANGED <<input, expansion, ast_result, nodes, gen, counter, scope, out>>

\* StepSetCounter that leaves the counter as the run before left it: the
\* fault C31_RerunSameOutput detects
StepSetCounterStale ==
  /\ Executing("SetCounter")
  /\ Advance(pc)
  /\ UNCHANGED <<input, expansion, ast_result, nodes, gen, counter, stack, scope, out>>

StepSetCounter ==
  /\ Executing("SetCounter")
  /\ counter' = ops[pc + 1].value
  /\ Advance(pc)
  /\ UNCHANGED <<input, expansion, ast_result, nodes, gen, stack, scope, out>>

StepIncCounter ==
  /\ Executing("IncCounter")
  /\ counter' = counter + 1
  /\ Advance(pc)
  /\ UNCHANGED <<input, expansion, ast_result, nodes, gen, stack, scope, out>>

\* StepLoadCounter with a one-based index: the fault C1_LoopOrder detects
StepLoadCounterOneBased ==
  /\ Executing("LoadCounter")
  /\ stack' = Append(stack, to_string(counter + 1))
  /\ Advance(pc)
  /\ UNCHANGED <<input, expansion, ast_result, nodes, gen, counter, scope, out>>

StepLoadCounter ==
  /\ Executing("LoadCounter")
  /\ stack' = Append(stack, to_string(counter))
  /\ Advance(pc)
  /\ UNCHANGED <<input, expansion, ast_result, nodes, gen, counter, scope, out>>

\* StepCmpCounterLessJmp without the clamp of the end bound to the array's
\* length: the fault C2_LoopCount detects
StepCmpCounterLessJmpUnclamped ==
  /\ Executing("CmpCounterLessJmp")
  /\ LET o == ops[pc + 1]
         value == unwrap_or(o.value, Len(get_array_var(o.name)))
     IN Advance(IF counter < value THEN o.op_index ELSE pc)
  /\ UNCHANGED <<input, expansion, ast_result, nodes, gen, counter, stack, scope, out>>

StepCmpCounterLessJmp ==
  /\ Executing("CmpCounterLessJmp")
  /\ LET o == ops[pc + 1]
         len == Len(get_array_var(o.name))
         value == IF o.value.some THEN Min(o.value.v, len) ELSE len
     IN Advance(IF counter < value THEN o.op_index ELSE pc)
  /\ UNCHANGED <<input, expansion, ast_result, nodes, gen, counter, stack, scope, out>>

\* StepCmpArrayEmptyJmp that never jumps: the fault C30_NoStackOrIndexFault
\* detects
StepCmpArrayEmptyJmpNever ==
  /\ Executing("CmpArrayEmptyJmp")
  /\ Advance(pc)
  /\ UNCHANGED <<input, expansion, ast_result, nodes, gen, counter, stack, scope, out>>

StepCmpArrayEmptyJmp ==
  /\ Executing("CmpArrayEmptyJmp")
  /\ LET o == ops[pc + 1]
         len == Len(get_array_var(o.name))
         end == Min(len, unwrap_or(o.end, len))
     IN Advance(IF unwrap_or(o.start, 0) >= end \/ end = 0 THEN o.op_index ELSE pc)
  /\ UNCHANGED <<input, expansion, ast_result, nodes, gen, counter, stack, scope, out>>

\* StepLoadArrayItem that steps over the instruction it could not execute:
\* the fault C32_FaultLeavesVm detects
StepLoadArrayItemSkip ==
  /\ Executing("LoadArrayItem")
  /\ LET arr == get_array_var(ops[pc + 1].name) IN
     IF counter >= Len(arr)
     THEN RunReturn(Err("ArrayIndexOverflow")) /\ pc' = pc + 1 /\ UNCHANGED stack
     ELSE stack' = Append(stack, arr[counter + 1]) /\ Advance(pc)
  /\ UNCHANGED <<input, expansion, ast_result, nodes, gen, counter, scope, out>>

StepLoadArrayItem ==
  /\ Executing("LoadArrayItem")
  /\ LET arr == get_array_var(ops[pc + 1].name) IN
     IF counter >= Len(arr)
     THEN RunReturn(Err("ArrayIndexOverflow")) /\ UNCHANGED <<pc, stack>>
     ELSE stack' = Append(stack, arr[counter + 1]) /\ Advance(pc)
  /\ UNCHANGED <<input, expansion, ast_result, nodes, gen, counter, scope, out>>

\* StepPutScopeVar that writes the binding into the external variable
\* table as well: the fault C29_TablesUnchanged detects
StepPutScopeVarExternal ==
  /\ Executing("PutScopeVar")
  /\ IF stack = <<>>
     THEN RunReturn(Err("EmptyStack")) /\ UNCHANGED <<pc, stack, scope, vars>>
     ELSE /\ stack' = SubSeq(stack, 1, Len(stack) - 1)
          /\ scope' = Insert(scope, ops[pc + 1].name, stack[Len(stack)])
          /\ vars' = Insert(vars, ops[pc + 1].name, stack[Len(stack)])
          /\ Advance(pc)
  /\ UNCHANGED <<code, arrays, expansion, ast_result, nodes, gen, counter, out>>

\* StepPutScopeVar that binds the top of the stack without popping it, so
\* that the piped value is written too: the fault C3_PipeBinds detects
StepPutScopeVarKeep ==
  /\ Executing("PutScopeVar")
  /\ IF stack = <<>>
     THEN RunReturn(Err("EmptyStack")) /\ UNCHANGED <<pc, stack, scope>>
     ELSE /\ scope' = Insert(scope, ops[pc + 1].name, stack[Len(stack)])
          /\ Advance(pc)
          /\ UNCHANGED stack
  /\ UNCHANGED <<input, expansion, ast_result, nodes, gen, counter, out>>

StepPutScopeVar ==
  /\ Executing("PutScopeVar")
  /\ IF stack = <<>>
     THEN RunReturn(Err("EmptyStack")) /\ UNCHANGED <<pc, stack, scope>>
     ELSE /\ stack' = SubSeq(stack, 1, Len(stack) - 1)
          /\ scope' = Insert(scope, ops[pc + 1].name, stack[Len(stack)])
          /\ Advance(pc)
  /\ UNCHANGED <<input, expansion, ast_result, nodes, gen, counter, out>>

\* StepDestroyScope that leaves the scope as it is: the fault
\* C21_ScopeCleared detects
StepDestroyScopeKeep ==
  /\ Executing("DestroyScope")
  /\ Advance(pc)
  /\ UNCHANGED <<input, expansion, ast_result, nodes, gen, counter, stack, scope, out>>

StepDestroyScope ==
  /\ Executing("DestroyScope")
  /\ scope' = EmptyMap
  /\ Advance(pc)
  /\ UNCHANGED <<input, expansion, ast_result, nodes, gen, counter, stack, out>>

\* `if self.pc >= program.len()`: step returns Err(EndOfProgram), on which
\* run breaks out of its loop and returns Ok(())
StepEndOfProgram ==
  /\ Running
  /\ pc >= Len(ops)
  /\ RunReturn(Ok(TRUE))
  /\ UNCHANGED <<input, expansion, ast_result, nodes, gen, counter, pc, stack, scope, out>>

(***************************************************************************)
(* Inputs: source texts and binding tables.  The sources are those of the  *)
(* specification's scenarios and of the tests of lib.rs, one per branch of *)
(* the compiler, and three enumerated families: loops NAME[s:e], slices    *)
(* name[s:e] and literal texts.                                            *)
(***************************************************************************)
\* {{ ARGS[0:2] | " - $(_item_)($(_index_))\n" }}
SrcScenario ==
  <<"{", "{", " ", "A", "R", "G", "S", "[", "0", ":", "2", "]", " ", "|",
    " ", "\"", " ", "-", " ", "$", "(", "_", "i", "t", "e", "m", "_", ")",
    "(", "$", "(", "_", "i", "n", "d", "e", "x", "_", ")", ")", "\\", "n",
    "\"", " ", "}", "}">>

\* {{ name }}
SrcName ==
  <<"{", "{", " ", "n", "a", "m", "e", " ", "}", "}">>

\* {{ 5 | "$(_)" }}
SrcPipeInt ==
  <<"{", "{", " ", "5", " ", "|", " ", "\"", "$", "(", "_", ")", "\"", " ",
    "}", "}">>

\* {{ 7 | "<$(_)>" | "[$(_)]" }}
SrcPipeChain ==
  <<"{", "{", " ", "7", " ", "|", " ", "\"", "<", "$", "(", "_", ")", ">",
    "\"", " ", "|", " ", "\"", "[", "$", "(", "_", ")", "]", "\"", " ", "}",
    "}">>

\* {{ name | "$(_)!" }}
SrcPipeName ==
  <<"{", "{", " ", "n", "a", "m", "e", " ", "|", " ", "\"", "$", "(", "_",
    ")", "!", "\"", " ", "}", "}">>

\* {{ name[1:3] | "($(_))" }}
SrcPipeSlice ==
  <<"{", "{", " ", "n", "a", "m", "e", "[", "1", ":", "3", "]", " ", "|",
    " ", "\"", "(", "$", "(", "_", ")", ")", "\"", " ", "}", "}">>

\* {{ "ab" | "$(_)c" }}
SrcPipeString ==
  <<"{", "{", " ", "\"", "a", "b", "\"", " ", "|", " ", "\"", "$", "(", "_",
    ")", "c", "\"", " ", "}", "}">>

\* {{ ARR[0:100] | "$(_item_);" }}.
SrcClampAll ==
  <<"{", "{", " ", "A", "R", "R", "[", "0", ":", "1", "0", "0", "]", " ",
    "|", " ", "\"", "$", "(", "_", "i", "t", "e", "m", "_", ")", ";", "\"",
    " ", "}", "}", ".">>

\* {{ ARR[5:10] | "$(_item_);" }}.
SrcClampNone ==
  <<"{", "{", " ", "A", "R", "R", "[", "5", ":", "1", "0", "]", " ", "|",
    " ", "\"", "$", "(", "_", "i", "t", "e", "m", "_", ")", ";", "\"", " ",
    "}", "}", ".">>

\* {{ name[2:100] }}
SrcSliceTail ==
  <<"{", "{", " ", "n", "a", "m", "e", "[", "2", ":", "1", "0", "0", "]",
    " ", "}", "}">>

\* {{ name[10:20] }}
SrcSliceBeyond ==
  <<"{", "{", " ", "n", "a", "m", "e", "[", "1", "0", ":", "2", "0", "]",
    " ", "}", "}">>

\* {{ ARR[0:2] | "$(_item_)" | "<$(_)>" }}
SrcLoopChain ==
  <<"{", "{", " ", "A", "R", "R", "[", "0", ":", "2", "]", " ", "|", " ",
    "\"", "$", "(", "_", "i", "t", "e", "m", "_", ")", "\"", " ", "|", " ",
    "\"", "<", "$", "(", "_", ")", ">", "\"", " ", "}", "}">>

\* {{ NONE[0:2] | "x" }}after
SrcLoopMissing ==
  <<"{", "{", " ", "N", "O", "N", "E", "[", "0", ":", "2", "]", " ", "|",
    " ", "\"", "x", "\"", " ", "}", "}", "a", "f", "t", "e", "r">>

\* {{ _item_ }}
SrcReservedName ==
  <<"{", "{", " ", "_", "i", "t", "e", "m", "_", " ", "}", "}">>

\* {{ _item_[0:1] }}
SrcReservedSlice ==
  <<"{", "{", " ", "_", "i", "t", "e", "m", "_", "[", "0", ":", "1", "]",
    " ", "}", "}">>

\* {{ 5 | "a" }}{{ _[0:1] }}
SrcStaleSlice ==
  <<"{", "{", " ", "5", " ", "|", " ", "\"", "a", "\"", " ", "}", "}", "{",
    "{", " ", "_", "[", "0", ":", "1", "]", " ", "}", "}">>

\* {{ 5 | "a" "$(_)" }}
SrcStaleScope ==
  <<"{", "{", " ", "5", " ", "|", " ", "\"", "a", "\"", " ", "\"", "$", "(",
    "_", ")", "\"", " ", "}", "}">>

\* {{ 5 | "a" }}{{ ARR[0:1] | "$(_)" }}
SrcStaleInLoop ==
  <<"{", "{", " ", "5", " ", "|", " ", "\"", "a", "\"", " ", "}", "}", "{",
    "{", " ", "A", "R", "R", "[", "0", ":", "1", "]", " ", "|", " ", "\"",
    "$", "(", "_", ")", "\"", " ", "}", "}">>

\* {{ "$(_)" }}
SrcUnboundString ==
  <<"{", "{", " ", "\"", "$", "(", "_", ")", "\"", " ", "}", "}">>

\* {{ ARR[0:1] | "x" "$(_item_)" }}
SrcItemAfterLoop ==
  <<"{", "{", " ", "A", "R", "R", "[", "0", ":", "1", "]", " ", "|", " ",
    "\"", "x", "\"", " ", "\"", "$", "(", "_", "i", "t", "e", "m", "_", ")",
    "\"", " ", "}", "}">>

\* {{ a ?m }}
SrcNameMacroExp ==
  <<"{", "{", " ", "a", " ", "?", "m", " ", "}", "}">>

\* {{ 18446744073709551616 }}
SrcBigInt ==
  <<"{", "{", " ", "1", "8", "4", "4", "6", "7", "4", "4", "0", "7", "3",
    "7", "0", "9", "5", "5", "1", "6", "1", "6", " ", "}", "}">>

\* {{ ARGS[0:1] }}
SrcArrayNotPiped ==
  <<"{", "{", " ", "A", "R", "G", "S", "[", "0", ":", "1", "]", " ", "}", "}">>

\* {{ ARGS[0:1] 5 }}
SrcArrayThenInt ==
  <<"{", "{", " ", "A", "R", "G", "S", "[", "0", ":", "1", "]", " ", "5",
    " ", "}", "}">>

\* {{ name \n }}
SrcNewLine ==
  <<"{", "{", " ", "n", "a", "m", "e", " ", "\n", " ", "}", "}">>

\* {{ | "a" }}
SrcPipeNoParent ==
  <<"{", "{", " ", "|", " ", "\"", "a", "\"", " ", "}", "}">>

\* {{ @m a[0:1] \n ?m }}
SrcMacroRange ==
  <<"{", "{", " ", "@", "m", " ", "a", "[", "0", ":", "1", "]", " ", "\n",
    " ", "?", "m", " ", "}", "}">>

\* a{{ @m 5 | "$(_);" \n ?m ?m }}b
SrcMacro ==
  <<"a", "{", "{", " ", "@", "m", " ", "5", " ", "|", " ", "\"", "$", "(",
    "_", ")", ";", "\"", " ", "\n", " ", "?", "m", " ", "?", "m", " ", "}",
    "}", "b">>

\* a\{b{{ "q\"\$\t" }}
SrcEscaped ==
  <<"a", "\\", "{", "b", "{", "{", " ", "\"", "q", "\\", "\"", "\\", "$",
    "\\", "t", "\"", " ", "}", "}">>

\* {{ 5 | 6 }}
SrcPipeToInt ==
  <<"{", "{", " ", "5", " ", "|", " ", "6", " ", "}", "}">>

\* {{ 5 | | "a" }}
SrcPipePipe ==
  <<"{", "{", " ", "5", " ", "|", " ", "|", " ", "\"", "a", "\"", " ", "}",
    "}">>

\* {{ 5 | "a" }}{{ | "b" }}
SrcPipeAfterChain ==
  <<"{", "{", " ", "5", " ", "|", " ", "\"", "a", "\"", " ", "}", "}", "{",
    "{", " ", "|", " ", "\"", "b", "\"", " ", "}", "}">>

\* {{ @x 1 \n @x 2 \n ?x }}
SrcMacroTwice ==
  <<"{", "{", " ", "@", "x", " ", "1", " ", "\n", " ", "@", "x", " ", "2",
    " ", "\n", " ", "?", "x", " ", "}", "}">>

\* {{ @x 1 \n @y 2 \n ?x @x 3 \n }}
SrcMacroTwiceLater ==
  <<"{", "{", " ", "@", "x", " ", "1", " ", "\n", " ", "@", "y", " ", "2",
    " ", "\n", " ", "?", "x", " ", "@", "x", " ", "3", " ", "\n", " ", "}",
    "}">>

\* {{ ?y }}
SrcMacroUndefined ==
  <<"{", "{", " ", "?", "y", " ", "}", "}">>

\* {{ ?y @y 1 \n }}
SrcMacroLater ==
  <<"{", "{", " ", "?", "y", " ", "@", "y", " ", "1", " ", "\n", " ", "}",
    "}">>

\* {{ @a 1 ?b \n }}
SrcMacroNested ==
  <<"{", "{", " ", "@", "a", " ", "1", " ", "?", "b", " ", "\n", " ", "}",
    "}">>

\* {{ @a @b 1 \n }}
SrcMacroNestedDef ==
  <<"{", "{", " ", "@", "a", " ", "@", "b", " ", "1", " ", "\n", " ", "}",
    "}">>

\* {{ @a \n }}
SrcMacroEmpty ==
  <<"{", "{", " ", "@", "a", " ", "\n", " ", "}", "}">>

\* {{ @x 1 | "$(_)" \n @y name \n ?y ?x ?y }}
SrcMacroTwo ==
  <<"{", "{", " ", "@", "x", " ", "1", " ", "|", " ", "\"", "$", "(", "_",
    ")", "\"", " ", "\n", " ", "@", "y", " ", "n", "a", "m", "e", " ",
    "\n", " ", "?", "y", " ", "?", "x", " ", "?", "y", " ", "}", "}">>

\* {{ \n 5 }}
SrcLeadingNewLine ==
  <<"{", "{", " ", "\n", " ", "5", " ", "}", "}">>

\* {{ name}}
SrcNameTight ==
  <<"{", "{", " ", "n", "a", "m", "e", "}", "}">>

\* {{ 5 }}
SrcIntSpaced ==
  <<"{", "{", " ", "5", " ", "}", "}">>

\* {{ 5}}
SrcIntTight ==
  <<"{", "{", " ", "5", "}", "}">>

\* {{ "a" }}
SrcStringSpaced ==
  <<"{", "{", " ", "\"", "a", "\"", " ", "}", "}">>

\* {{ "a"}}
SrcStringTight ==
  <<"{", "{", " ", "\"", "a", "\"", "}", "}">>

\* {{ 5 | "$(_)"}}
SrcPipeTight ==
  <<"{", "{", " ", "5", " ", "|", " ", "\"", "$", "(", "_", ")", "\"", "}",
    "}">>

\* {{ ARR[0:1] | "a" }}{{ ARGS[:] | "b" }}
SrcTwoLoops ==
  <<"{", "{", " ", "A", "R", "R", "[", "0", ":", "1", "]", " ", "|", " ",
    "\"", "a", "\"", " ", "}", "}", "{", "{", " ", "A", "R", "G", "S", "[",
    ":", "]", " ", "|", " ", "\"", "b", "\"", " ", "}", "}">>

\* {{ a name[0:2] }}
SrcNameNameRange ==
  <<"{", "{", " ", "a", " ", "n", "a", "m", "e", "[", "0", ":", "2", "]",
    " ", "}", "}">>

\* {{ name \n | "$(_)" }}
SrcNameNewLinePipe ==
  <<"{", "{", " ", "n", "a", "m", "e", " ", "\n", " ", "|", " ", "\"", "$",
    "(", "_", ")", "\"", " ", "}", "}">>

\* {{ name | \n "$(_)" }}
SrcPipeNewLine ==
  <<"{", "{", " ", "n", "a", "m", "e", " ", "|", " ", "\n", " ", "\"", "$",
    "(", "_", ")", "\"", " ", "}", "}">>

\* {{ name \n | 5 }}
SrcNameNewLinePipeInt ==
  <<"{", "{", " ", "n", "a", "m", "e", " ", "\n", " ", "|", " ", "5", " ",
    "}", "}">>

\* {{ 5 | name }}
SrcPipeToName ==
  <<"{", "{", " ", "5", " ", "|", " ", "n", "a", "m", "e", " ", "}", "}">>

\* {{ 5 | }}
SrcPipeToEnd ==
  <<"{", "{", " ", "5", " ", "|", " ", "}", "}">>

\* {{ 5 | ARR[0:1] }}
SrcPipeToLoop ==
  <<"{", "{", " ", "5", " ", "|", " ", "A", "R", "R", "[", "0", ":", "1",
    "]", " ", "}", "}">>

\* {{ ARR | "$(_item_);" }}
SrcBareArray ==
  <<"{", "{", " ", "A", "R", "R", " ", "|", " ", "\"", "$", "(", "_", "i",
    "t", "e", "m", "_", ")", ";", "\"", " ", "}", "}">>

\* {{ ARR | "x;" }}
SrcBareArrayPlain ==
  <<"{", "{", " ", "A", "R", "R", " ", "|", " ", "\"", "x", ";", "\"", " ",
    "}", "}">>

\* {{ @m 5\n7 \n ?m }}
SrcMacroTightInt ==
  <<"{", "{", " ", "@", "m", " ", "5", "\n", "7", " ", "\n", " ", "?", "m",
    " ", "}", "}">>

\* {{ @m 5 \n7 \n ?m }}
SrcMacroSpacedInt ==
  <<"{", "{", " ", "@", "m", " ", "5", " ", "\n", "7", " ", "\n", " ", "?",
    "m", " ", "}", "}">>

\* {{ @m 5 \n a ?m }}
SrcMacroAfterName ==
  <<"{", "{", " ", "@", "m", " ", "5", " ", "\n", " ", "a", " ", "?", "m",
    " ", "}", "}">>

\* {{ a @m 5 \n }}
SrcDefAfterName ==
  <<"{", "{", " ", "a", " ", "@", "m", " ", "5", " ", "\n", " ", "}", "}">>

\* {{ @m 5 #c\n7 \n ?m }}
SrcMacroComment ==
  <<"{", "{", " ", "@", "m", " ", "5", " ", "#", "c", "\n", "7", " ", "\n",
    " ", "?", "m", " ", "}", "}">>

\* {{ @m "s"\n7 \n ?m }}
SrcMacroString ==
  <<"{", "{", " ", "@", "m", " ", "\"", "s", "\"", "\n", "7", " ", "\n",
    " ", "?", "m", " ", "}", "}">>

\* {{ @m name\n7 \n ?m }}
SrcMacroTightName ==
  <<"{", "{", " ", "@", "m", " ", "n", "a", "m", "e", "\n", "7", " ", "\n",
    " ", "?", "m", " ", "}", "}">>

Sources ==
  {SrcScenario, SrcName, SrcPipeInt, SrcPipeChain, SrcPipeName,
   SrcPipeSlice, SrcPipeString, SrcClampAll, SrcClampNone, SrcSliceTail,
   SrcSliceBeyond, SrcLoopChain, SrcLoopMissing, SrcReservedName,
   SrcReservedSlice, SrcStaleSlice, SrcStaleScope, SrcStaleInLoop,
   SrcUnboundString, SrcItemAfterLoop, SrcNameMacroExp, SrcBigInt,
   SrcArrayNotPiped, SrcArrayThenInt, SrcNewLine, SrcPipeNoParent,
   SrcMacroRange, SrcMacro, SrcEscaped, SrcPipeToInt, SrcPipePipe,
   SrcPipeAfterChain, SrcMacroTwice, SrcMacroTwiceLater, SrcMacroUndefined,
   SrcMacroLater, SrcMacroNested, SrcMacroNestedDef, SrcMacroEmpty,
   SrcMacroTwo, SrcLeadingNewLine, SrcNameTight, SrcIntSpaced, SrcIntTight,
   SrcStringSpaced, SrcStringTight, SrcPipeTight, SrcTwoLoops,
   SrcNameNameRange, SrcNameNewLinePipe, SrcPipeNewLine,
   SrcNameNewLinePipeInt, SrcPipeToName, SrcPipeToEnd, SrcPipeToLoop,
   SrcBareArray, SrcBareArrayPlain, SrcMacroTightInt, SrcMacroSpacedInt,
   SrcMacroAfterName, SrcDefAfterName, SrcMacroComment, SrcMacroString,
   SrcMacroTightName}

\* bounds of the enumerated inputs
MaxIdx == 3
MaxArrLen == 3
MaxLitLen == 3

OptBounds == {None} \cup {Some(k) : k \in 0..MaxIdx}

BoundText(b) == IF b.some THEN to_string(b.v) ELSE <<>>

\* {{ ARR[s:e] | "$(_index_)=$(_item_);" }}.
LoopSrc(s, e) ==
  <<"{", "{", " ", "A", "R", "R", "[">> \o BoundText(s) \o <<":">> \o BoundText(e)
  \o <<"]", " ", "|", " ", "\"", "$", "(", "_", "i", "n", "d", "e", "x", "_", ")",
       "=", "$", "(", "_", "i", "t", "e", "m", "_", ")", ";", "\"", " ", "}", "}", ".">>

\* {{ name[s:e] }}
SliceSrc(s, e) ==
  <<"{", "{", " ", "n", "a", "m", "e", "[">> \o BoundText(s) \o <<":">> \o BoundText(e)
  \o <<"]", " ", "}", "}">>

LitAlphabet == {"a", "\\", "{", "}", "U00E9", "U0301"}

LitTexts == UNION {[1..k -> LitAlphabet] : k \in 0..MaxLitLen}

Cake == <<"c", "a", "k", "e">>
Cakolas == <<"c", "a", "k", "o", "l", "a", "s">>
ThisIsAnArg == <<"t", "h", "i", "s", " ", "i", "s", " ", "a", "n", " ", "a", "r", "g">>
Hello == <<"h", "e", "l", "l", "o">>
HelloAccent == <<"h", "U00E9", "l", "l", "o">>
Combining == <<"e", "U0301", "x">>

NameKey == <<"n", "a", "m", "e">>

\* the tables of lib.rs (test_str)
TestVars ==
  (NameKey :> Cake) @@ (<<"s", "i", "r", "n", "a", "m", "e">> :> Cakolas)
  @@ (<<"a", "r", "g">> :> ThisIsAnArg)

NameIs(v) == (NameKey :> v)

VarTables == {TestVars, EmptyMap} \cup {NameIs(v) : v \in {Hello, HelloAccent, Combining, <<>>}}

Elem(k) ==
  CASE k = 1 -> Cake
    [] k = 2 -> Cakolas
    [] k = 3 -> ThisIsAnArg
    [] OTHER -> <<"e">> \o to_string(k)

\* ARGS and ARR, both holding the first n elements; ArrOf(2) is the ARGS of
\* the specification's scenario and ArrOf(3) the ARGS of lib.rs (test_str)
ArrOf(n) ==
  (<<"A", "R", "G", "S">> :> [k \in 1..n |-> Elem(k)])
  @@ (<<"A", "R", "R">> :> [k \in 1..n |-> Elem(k)])

ArrTables == {EmptyMap} \cup {ArrOf(n) : n \in 0..MaxArrLen}

Scenario(c, v, a) == [code |-> c, vars |-> v, arrays |-> a]

Scenarios ==
  {Scenario(c, v, a) : c \in Sources, v \in {TestVars, NameIs(HelloAccent)},
                       a \in {ArrOf(2), ArrOf(3)}}
  \cup {Scenario(LoopSrc(s, e), TestVars, a) : s \in OptBounds, e \in OptBounds,
                                               a \in ArrTables}
  \cup {Scenario(SliceSrc(s, e), v, EmptyMap) : s \in OptBounds, e \in OptBounds,
                                                v \in VarTables}
  \cup {Scenario(c, TestVars, ArrOf(3)) : c \in LitTexts}

Init ==
  /\ \E sc \in Scenarios :
       /\ code = sc.code
       /\ vars = sc.vars
       /\ arrays = sc.arrays
  /\ phase = "ast"
  /\ parsed = <<>>
  /\ iter = 0
  /\ macro_table = EmptyMap
  /\ expanded = <<>>
  /\ ast_result = Pending
  /\ nodes = <<>>
  /\ i = 0
  /\ ops = <<>>
  /\ array_start = None
  /\ ir_scope = {}
  /\ ir_result = Pending
  /\ counter = 0
  /\ pc = 0
  /\ stack = <<>>
  /\ scope = EmptyMap
  /\ out = <<>>
  /\ run_result = Pending

Next ==
  \/ Ast
  \/ AstMacroDef
  \/ AstMacroExp
  \/ AstName
  \/ AstNewLine
  \/ AstPush
  \/ AstReturn
  \/ IrLiteral
  \/ IrInt
  \/ IrName
  \/ IrArrayLoop
  \/ IrArraySlice
  \/ IrString
  \/ IrNewLine
  \/ IrPipe
  \/ IrRange
  \/ IrUnreachable
  \/ IrReturn
  \/ StepPutStr
  \/ StepFlush
  \/ StepCollapse
  \/ StepPutName
  \/ StepSetCounter
  \/ StepIncCounter
  \/ StepLoadCounter
  \/ StepCmpCounterLessJmp
  \/ StepCmpArrayEmptyJmp
  \/ StepLoadArrayItem
  \/ StepPutScopeVar
  \/ StepDestroyScope
  \/ StepEndOfProgram

Spec == Init /\ [][Next]_state

(***************************************************************************)
(* Vm::run on a program handed to it directly.  Vm::new and Vm::run are    *)
(* public and take any slice of Op: the programs below are two enumerated  *)
(* families, pushes followed by Flush or by Collapse, one program per      *)
(* fault of Vm::step, and the instructions of a loop over ARR.             *)
(***************************************************************************)
MaxPush == 3

PushItems == UNION {[1..k -> {<<"a">>, <<"b">>, <<"c">>}] : k \in 1..MaxPush}

PutStrs(items) == [k \in 1..Len(items) |-> PutStr(items[k])]

PushFlush(items) == PutStrs(items) \o <<Flush>>

PushCollapse(items) == PutStrs(items) \o <<Collapse, Flush>>

\* "a" is written, then PutScopeVar finds the stack empty
ProgEmptyStack ==
  <<PutStr(<<"a">>), Flush, PutScopeVar(Underscore), PutStr(<<"b">>), Flush>>

\* "a" is written, then LoadArrayItem reads past the end of ARR
ProgOverflow ==
  <<PutStr(<<"a">>), Flush, SetCounter(5), LoadArrayItem(<<"A", "R", "R">>),
    PutStr(<<"b">>), Flush>>

\* the fetch of a name no table holds, then of the reserved name `_`, which
\* the scope does not hold
ProgFetch ==
  <<PutName(<<"n", "o", "n", "e">>, None, None), PutStr(<<"x">>), Flush,
    PutName(Underscore, None, None), PutStr(<<"b">>), Flush>>

\* `_` is bound to "v" and fetched
ProgBound ==
  <<PutStr(<<"v">>), PutScopeVar(Underscore), PutName(Underscore, None, None),
    Flush, DestroyScope>>

\* the instructions of `{{ ARR | "$(_item_)" }}.`
ProgLoop ==
  <<SetCounter(0),
    CmpArrayEmptyJmp(11, None, None, <<"A", "R", "R">>),
    LoadArrayItem(<<"A", "R", "R">>),
    PutScopeVar(ItemName),
    LoadCounter,
    PutScopeVar(IndexName),
    PutName(ItemName, None, None),
    Collapse,
    Flush,
    DestroyScope,
    IncCounter,
    CmpCounterLessJmp(1, None, <<"A", "R", "R">>),
    PutStr(<<".">>),
    Flush>>

\* an external table that holds the reserved name `_`
ShadowVars == TestVars @@ (Underscore :> <<"e", "x", "t">>)

Programs ==
  {PushFlush(items) : items \in PushItems}
  \cup {PushCollapse(items) : items \in PushItems}
  \cup {ProgEmptyStack, ProgOverflow, ProgFetch, ProgBound, ProgLoop}

\* Vm::new(vars, arrays), about to run `program`
InitVm ==
  /\ code = <<>>
  /\ vars \in {TestVars, ShadowVars}
  /\ arrays \in {ArrOf(0), ArrOf(2)}
  /\ phase = "run"
  /\ parsed = <<>>
  /\ iter = 0
  /\ macro_table = EmptyMap
  /\ expanded = <<>>
  /\ ast_result = Pending
  /\ nodes = <<>>
  /\ i = 0
  /\ ops \in Programs
  /\ array_start = None
  /\ ir_scope = {}
  /\ ir_result = Pending
  /\ counter = 0
  /\ pc = 0
  /\ stack = <<>>
  /\ scope = EmptyMap
  /\ out = <<>>
  /\ run_result = Pending

VmNext ==
  \/ StepPutStr
  \/ StepFlush
  \/ StepCollapse
  \/ StepPutName
  \/ StepSetCounter
  \/ StepIncCounter
  \/ StepLoadCounter
  \/ StepCmpCounterLessJmp
  \/ StepCmpArrayEmptyJmp
  \/ StepLoadArrayItem
  \/ StepPutScopeVar
  \/ StepDestroyScope
  \/ StepEndOfProgram

VmSpec == InitVm /\ [][VmNext]_state

(***************************************************************************)
(* The caller of the Vm: a second run of the same program after            *)
(* Vm::clear_state, and Vm::step called again after it returned an error   *)
(***************************************************************************)
\* `vm.clear_state(); vm.run(w, program)` after a run that returned while the
\* sink took every write: pc, stack and scope are reset, the counter is not
\* touched, and the second run writes to the same sink
ClearState ==
  /\ phase = "done"
  /\ ir_result.tag = "Ok"
  /\ run_result.tag \in {"Ok", "Err"}
  /\ run_result # Err("WriteError")
  /\ pc' = 0
  /\ stack' = <<>>
  /\ scope' = EmptyMap
  /\ run_result' = Pending
  /\ phase' = "rerun"
  /\ UNCHANGED <<input, expansion, ast_result, nodes, gen, counter, out>>

RerunNext ==
  \/ Next
  \/ ClearState

RerunSpec == Init /\ [][RerunNext]_state

\* Vm::step is public: after it returned EndOfProgram (on which Vm::run
\* returns Ok), EmptyStack, UndefinedScopeVar or ArrayIndexOverflow the
\* caller calls it again on the same Vm; run_result keeps the result of the
\* call before until the new call returns
StepAgain ==
  /\ phase = "done"
  /\ run_result \in {Ok(TRUE), Err("EmptyStack"), Err("UndefinedScopeVar"),
                     Err("ArrayIndexOverflow")}
  /\ phase' = "run"
  /\ UNCHANGED <<input, expansion, ast_result, nodes, gen, vm>>

StepNext ==
  \/ VmNext
  \/ StepAgain

StepSpec == InitVm /\ [][StepNext]_state

(***************************************************************************)
(* Properties                                                              *)
(***************************************************************************)
\* Vm::run returned Ok(())
RunOk == phase = "done" /\ run_result = Ok(TRUE)

\* what a run over a sink that may refuse a write can return without a fault
NoFault == run_result \in {Ok(TRUE), Err("WriteError")}

Max(a, b) == IF a > b THEN a ELSE b

\* the external array ARR, as Vm::get_array_var sees it
ArrKey == <<"A", "R", "R">>
ArrValue == IF ArrKey \in DOMAIN arrays THEN arrays[ArrKey] ELSE <<>>

\* the last index of a loop or slice [s:e] over n items, exclusive
ClampedEnd(e, n) == Min(unwrap_or(e, n), n)

\* the text "k=arr[k];" for k = from, ..., to - 1, in ascending order
RECURSIVE LoopText(_, _, _)
LoopText(arr, from, to) ==
  IF from >= to THEN <<>>
  ELSE to_string(from) \o <<"=">> \o arr[from + 1] \o <<";">> \o LoopText(arr, from + 1, to)

\*  - cake(0)\n - cakolas(1)\n
ScenarioText ==
  <<" ", "-", " ", "c", "a", "k", "e", "(", "0", ")", "\n",
    " ", "-", " ", "c", "a", "k", "o", "l", "a", "s", "(", "1", ")", "\n">>

\* the instruction about to be executed fetches the reserved name `name`
Fetching(name) ==
  /\ phase = "run"
  /\ pc < Len(ops)
  /\ ops[pc + 1].op = "PutName"
  /\ ops[pc + 1].name = name

\* C1: in a loop NAME[s:e] | "body" the iterations run in ascending index
\* order, the k-th with _item_ bound to the element at index s+k and _index_
\* to the decimal text of s+k: whenever the body fetches _item_ or _index_,
\* the scope holds the element at the counter and the counter's decimal text;
\* a completed run of `{{ ARR[s:e] | "$(_index_)=$(_item_);" }}.` has written
\* "k=ARR[k];" for k = s, ..., min(e, n) - 1 in that order; and with
\* ARGS = [cake, cakolas] the scenario's template writes exactly
\* " - cake(0)\n - cakolas(1)\n".
C1_LoopOrder ==
  /\ (Fetching(ItemName) \/ Fetching(IndexName)) =>
       \E k \in 1..Len(ops) :
         /\ ops[k].op = "LoadArrayItem"
         /\ counter < Len(get_array_var(ops[k].name))
         /\ ItemName \in DOMAIN scope
         /\ scope[ItemName] = get_array_var(ops[k].name)[counter + 1]
         /\ IndexName \in DOMAIN scope
         /\ scope[IndexName] = to_string(counter)
  /\ \A s \in OptBounds, e \in OptBounds :
       (code = LoopSrc(s, e) /\ RunOk) =>
         out = LoopText(ArrValue, unwrap_or(s, 0), ClampedEnd(e, Len(ArrValue))) \o <<".">>
  /\ (code = SrcScenario /\ arrays = ArrOf(2) /\ RunOk) => out = ScenarioText

\* a completed run of the scenario's template over ARGS = [cake, cakolas]
C1_Witness ==
  /\ code = SrcScenario
  /\ arrays = ArrOf(2)
  /\ RunOk
  /\ out = ScenarioText

RECURSIVE Count(_, _)
Count(text, c) ==
  IF text = <<>> THEN 0
  ELSE (IF Head(text) = c THEN 1 ELSE 0) + Count(Tail(text), c)

\* the number of times the loop body was rendered and written: the bodies of
\* LoopSrc, SrcClampAll and SrcClampNone end in `;`, which no element holds
Iterations == Count(out, ";")

\* C2: a loop over NAME[s:e] and an array of length n (absent s is 0, absent
\* e is n, a missing array has length 0) executes its body exactly
\* max(0, min(e, n) - s) times and the run ends without a fault; ARR[0:100]
\* over 3 elements iterates 3 times, ARR[5:10] over the same array 0 times,
\* writing nothing for the loop.
C2_LoopCount ==
  /\ \A s \in OptBounds, e \in OptBounds :
       (code = LoopSrc(s, e) /\ phase = "done") =>
         /\ NoFault
         /\ RunOk =>
              Iterations = Max(0, ClampedEnd(e, Len(ArrValue)) - unwrap_or(s, 0))
  /\ (code \in {SrcClampAll, SrcClampNone} /\ phase = "done") => NoFault
  /\ (code = SrcClampAll /\ RunOk) => Iterations = Len(ArrValue)
  /\ (code = SrcClampNone /\ RunOk /\ Len(ArrValue) <= 5) => out = <<".">>

\* ARR[0:100] over the three elements of lib.rs has run to its end
C2_Witness ==
  /\ code = SrcClampAll
  /\ Len(ArrValue) = 3
  /\ RunOk
  /\ Iterations = 3

PipeSources == {SrcPipeInt, SrcPipeChain, SrcPipeName, SrcPipeSlice, SrcPipeString}

\* what the last string of each pipe chain renders to under the tables of
\* lib.rs (name = cake)
PipeText ==
  CASE code = SrcPipeInt -> <<"5">>
    [] code = SrcPipeChain -> <<"[", "<", "7", ">", "]">>
    [] code = SrcPipeName -> <<"c", "a", "k", "e", "!">>
    [] code = SrcPipeSlice -> <<"(", "a", "k", ")">>
    [] code = SrcPipeString -> <<"a", "b", "c">>
    [] OTHER -> <<>>

NameValue == IF NameKey \in DOMAIN vars THEN vars[NameKey] ELSE <<>>

\* graphemes [s-or-0, min(e-or-len, len)) of a value, len counted in graphemes
GraphemeSlice(value, s, e) ==
  Concat(SubSeq(Graphemes(value), unwrap_or(s, 0) + 1,
                ClampedEnd(e, Len(Graphemes(value)))))

\* C4: fetching a non-reserved variable with bounds [start:end] pushes the
\* graphemes of its value at [start-or-0, min(end-or-len, len)), len being
\* the number of graphemes, and never faults, for every value, multi-byte
\* graphemes included: `{{ name[s:e] }}` runs to its end and, unless the sink
\* refuses the write, has written exactly that slice.  (Violated: the end is
\* clamped to the value's length in bytes.)
C4_SliceClamped ==
  \A s \in OptBounds, e \in OptBounds :
    (code \in {SliceSrc(s, e), SrcSliceTail, SrcSliceBeyond} /\ phase = "done") =>
      /\ NoFault
      /\ RunOk =>
           out = IF code = SliceSrc(s, e) THEN GraphemeSlice(NameValue, s, e)
                 ELSE IF code = SrcSliceTail THEN GraphemeSlice(NameValue, Some(2), Some(100))
                 ELSE <<>>

\* a text without `{`, `}` and `\` holds no directive block and no escape
PlainText(text) == \A k \in 1..Len(text) : text[k] \notin {"{", "}", "\\"}

\* C5: a source text without a directive block is written verbatim, every
\* character preserved, multi-byte and combining sequences included: it
\* compiles, and its run, unless the sink refuses a write, ends with the
\* source as output.  (Violated: the lexer slices the source at grapheme
\* indices taken as byte offsets.)
C5_Verbatim ==
  (code \in LitTexts /\ PlainText(code) /\ phase = "done") =>
    /\ ast_result.tag = "Ok"
    /\ ir_result.tag = "Ok"
    /\ NoFault
    /\ RunOk => out = code

\* the node is a directive value that names a reserved variable: a Name
\* node, or a slice (an Array node whose name is not an array's)
ReservedValue(n) ==
  \/ /\ n.inner.kind = "Name"
     /\ as_str(n, code).tag = "Ok"
     /\ is_name_reserved(as_str(n, code).val)
  \/ /\ n.inner.kind = "Array"
     /\ ~is_name_array(n.inner.name)
     /\ is_name_reserved(n.inner.name)

\* C6: a bare reserved name written as a directive value, or a slice of a
\* reserved name that is not bound, is rejected by gen_ir with UndefinedVar
\* and no program is produced.  A slice is never the right side of a pipe
\* (only a string is), so no reserved name is bound where a slice stands:
\* gen_ir returns no program for a node list that holds such a value.
\* (Violated: the `_` of a finished pipe chain stays in gen_ir's scope set.)
C6_ReservedRejected ==
  ir_result.tag = "Ok" => \A k \in 1..Len(nodes) : ~ReservedValue(nodes[k])

\* C7: a reserved name in a string or slice is accepted by gen_ir only where
\* the enclosing pipe chain or loop binds it, so that no program accepted by
\* gen_ir raises UndefinedScopeVar at run time.  (Violated: gen_ir's scope
\* set is cleared only where a loop closes.)
C7_NoUndefinedScopeVar == run_result # Err("UndefinedScopeVar")

\* C8: for every source text and binding tables, ast, gen_ir and Vm::run
\* succeed or return a typed error; none panics.  (Violated: unreachable!()
\* on a macro marker after a name, unwrap on an integer above usize::MAX,
\* slices and indices out of range on multi-byte text.)
C8_NoPanic ==
  /\ ast_result.tag # "Panic"
  /\ ir_result.tag # "Panic"
  /\ run_result.tag # "Panic"

\* C9: for every program gen_ir produces and all binding tables, Vm::run on
\* a fresh VM terminates with the program counter at or past the program's
\* length and returns Ok: a run that has ended, other than on a write the
\* sink refused, ended there.  (Violated: the runs that C4 and C7 describe
\* end in a panic or in UndefinedScopeVar before the end of the program.)
C9_RunsToEnd ==
  (phase = "done" /\ ir_result.tag = "Ok" /\ run_result # Err("WriteError")) =>
    (pc >= Len(ops) /\ run_result = Ok(TRUE))

\* gen_ir is at an Array node with an all-uppercase name that no Pipe follows
AtUnpipedArray ==
  /\ Visiting("Array")
  /\ is_name_array(nodes[i + 1].inner.name)
  /\ (i + 1 >= Len(nodes) \/ nodes[i + 2].inner.kind # "Pipe")

\* the loop whose head CmpArrayEmptyJmp is instruction k has a body string:
\* its Collapse lies between the head and the backward jump to the head
LoopHasBody(program, k) ==
  \E j \in k + 1..Len(program), b \in k + 1..Len(program) :
    /\ b < j
    /\ program[b].op = "Collapse"
    /\ program[j].op = "CmpCounterLessJmp"
    /\ program[j].op_index = k - 1
    /\ program[k].op_index = j - 1

\* C10: an Array node with an all-uppercase name that is not followed by a
\* Pipe node makes gen_ir fail with ArrayNotPiped at the array's offset, and
\* gen_ir never returns a program that holds a loop without a body string.
C10_ArrayNotPiped ==
  [][/\ AtUnpipedArray =>
          /\ ir_result' = Err(new_array_pipe(nodes[i + 1].first_char))
          /\ phase' = "done"
     /\ ir_result'.tag = "Ok" =>
          \A k \in 1..Len(ops') : ops'[k].op = "CmpArrayEmptyJmp" => LoopHasBody(ops', k)
    ]_state

\* gen_ir has rejected `{{ ARGS[0:1] }}` at the array's offset, 3
C10_Witness ==
  /\ code = SrcArrayNotPiped
  /\ phase = "done"
  /\ ir_result = Err(new_array_pipe(3))

\* gen_ir returns Err(e) in this step
IrRejects(e) == ir_result' = Err(e) /\ phase' = "done"

\* node k of the list given to gen_ir is a Pipe
PipeAt(k) == k >= 1 /\ k <= Len(nodes) /\ nodes[k].inner.kind = "Pipe"

\* the Pipe at k has no value to its left: it is the first node, or follows
\* literal text (the text before the block, or between the block of a
\* finished chain and this one), or follows another Pipe
Orphan(k) == PipeAt(k) /\ (k = 1 \/ nodes[k - 1].inner.kind \in {"Literal", "Pipe"})

\* C11: a Pipe node with no value to its left makes gen_ir fail with
\* PipeNoParent at that pipe's offset: so does every Pipe gen_ir visits and
\* every Pipe it finds where the string of a piped integer is expected, and
\* gen_ir returns no program for a node list that holds such a Pipe.
C11_PipeNoParent ==
  [][/\ Visiting("Pipe") => IrRejects(new_pipe_no_parent(nodes[i + 1].first_char))
     /\ (Visiting("Int") /\ PipeAt(i + 2) /\ PipeAt(i + 3)) =>
          IrRejects(new_pipe_no_parent(nodes[i + 3].first_char))
     /\ ir_result'.tag = "Ok" => \A k \in 1..Len(nodes) : ~Orphan(k)
    ]_state

\* gen_ir has rejected `{{ 5 | | "a" }}` at the second pipe, offset 7
C11_Witness ==
  /\ code = SrcPipePipe
  /\ phase = "done"
  /\ Orphan(4)
  /\ ir_result = Err(new_pipe_no_parent(7))

\* the second pass is at a macro marker (`@name` or `?name`) with this name
MarkerName == macro_name(parsed[iter + 1], code)

DefinedEarlier(y) ==
  \E j \in 1..iter :
    /\ parsed[j].inner.kind = "MacroDef"
    /\ macro_name(parsed[j], code) = Ok(y)

RECURSIVE LineEnd(_)
LineEnd(k) ==
  IF k > Len(parsed) \/ parsed[k].inner.kind = "NewLine" THEN k ELSE LineEnd(k + 1)

\* the nodes between the `@name` marker the second pass is at and the
\* NewLine that ends the definition
BodyNodes == SubSeq(parsed, iter + 2, LineEnd(iter + 2) - 1)

HasMarker(body) == \E j \in 1..Len(body) : body[j].inner.kind \in {"MacroDef", "MacroExp"}

AstFailsWith(reason) ==
  /\ ast_result'.tag = "Err"
  /\ ast_result'.err.reason = reason
  /\ phase' = "done"

C15_FlushCollapse ==
  [][/\ Executing("Flush") =>
          /\ stack' = <<>>
          /\ run_result' = Pending => out' = out \o Concat(stack)
          /\ run_result' # Pending =>
               \E k \in 1..Len(stack) : out' = out \o Concat(SubSeq(stack, 1, k - 1))
     /\ Executing("Collapse") =>
          /\ Len(stack') = 1
          /\ stack'[1] = Concat(stack)
          /\ out' = out
     /\ \A items \in PushItems :
          /\ (ops = PushFlush(items) /\ Executing("Flush") /\ run_result' = Pending) =>
               (stack = items /\ out' = Concat(items))
          /\ (ops = PushCollapse(items) /\ Executing("Collapse")) =>
               (stack = items /\ stack' = <<Concat(items)>>)
     /\ (ops = PushFlush(<< <<"a">>, <<"b">>, <<"c">> >>) /\ Executing("Flush")
           /\ run_result' = Pending) =>
          out' = <<"a", "b", "c">>
    ]_vm

\* a, b and c were pushed and flushed: "abc" is written, the stack is empty
C15_Witness ==
  /\ ops = PushFlush(<< <<"a">>, <<"b">>, <<"c">> >>)
  /\ pc = 4
  /\ stack = <<>>
  /\ out = <<"a", "b", "c">>

\* the PutName about to be executed, of `name`, does what C16 states
FetchesAsClaimed(name) ==
  /\ (~is_name_reserved(name) /\ name \notin DOMAIN vars) =>
       /\ stack' = Append(stack, <<>>)
       /\ run_result' = Pending
       /\ pc' = pc + 1
  /\ (is_name_reserved(name) /\ name \notin DOMAIN scope) =>
       /\ run_result' = Err("UndefinedScopeVar")
       /\ stack' = stack
  /\ (is_name_reserved(name) /\ name \in DOMAIN scope
        /\ ops[pc + 1].start = None /\ ops[pc + 1].end = None) =>
       /\ stack' = Append(stack, scope[name])
       /\ run_result' = Pending

\* C16: a fetch of a non-reserved name that the external table does not hold
\* pushes the empty string and does not fault; a reserved name is looked up
\* in the scope only: it faults with UndefinedScopeVar when the scope does
\* not hold it, whether or not the external table holds that name, and
\* pushes the scope's value when the scope holds it.
C16_Fetch ==
  [][Executing("PutName") => FetchesAsClaimed(ops[pc + 1].name)]_vm

\* `none` is in no table: the empty string was pushed under "x" and "x" was
\* written; then `_`, which the external table holds and the scope does not,
\* was fetched
C16_Witness ==
  /\ ops = ProgFetch
  /\ Underscore \in DOMAIN vars
  /\ phase = "done"
  /\ pc = 3
  /\ out = <<"x">>
  /\ run_result = Err("UndefinedScopeVar")

VmFaults ==
  {Err("EmptyStack"), Err("UndefinedScopeVar"), Err("ArrayIndexOverflow"),
   Err("WriteError")}

IsPrefix(a, b) == Len(a) <= Len(b) /\ SubSeq(b, 1, Len(a)) = a

\* C17: when an instruction faults (EmptyStack, UndefinedScopeVar,
\* ArrayIndexOverflow, WriteError), Vm::run returns that fault at once: the
\* program counter stays at the faulting instruction, no later instruction
\* is executed, the instruction is not retried and nothing more is written;
\* the text flushed before the fault stays in the sink.
C17_FaultEndsRun ==
  [][/\ run_result \in VmFaults => UNCHANGED state
     /\ (run_result = Pending /\ run_result' \in VmFaults) =>
          /\ phase' = "done"
          /\ pc' = pc
          /\ IsPrefix(out, out')
          /\ run_result' # Err("WriteError") => out' = out
     /\ run_result'.tag = "Err" => run_result' \in VmFaults
    ]_state

\* "a" was written, PutScopeVar found the stack empty: the run has returned
\* EmptyStack at instruction 2, and "b" was never pushed
C17_Witness ==
  /\ ops = ProgEmptyStack
  /\ phase = "done"
  /\ run_result = Err("EmptyStack")
  /\ pc = 2
  /\ stack = <<>>
  /\ out = <<"a">>

\* the value token of a source that holds one block with one value: its
\* type and its text
ValueTokenOf(src, tokens) ==
  IF tokens.tag = "Ok" /\ Len(tokens.val) >= 2
  THEN <<tokens.val[2].token_type, as_str(tokens.val[2], src)>>
  ELSE <<tokens.tag>>

ValueToken(src) == ValueTokenOf(src, lex(src))

\* a value followed by a space and the same value directly before `}}`, both
\* at the end of a source without a trailing newline, and what the spaced
\* form renders under the tables of lib.rs
TightPairs ==
  {[spaced |-> SrcName, tight |-> SrcNameTight, text |-> Cake],
   [spaced |-> SrcIntSpaced, tight |-> SrcIntTight, text |-> <<"5">>],
   [spaced |-> SrcStringSpaced, tight |-> SrcStringTight, text |-> <<"a">>]}

\* C18: a value token (a name, an integer, a quoted string) directly before
\* `}}`, at the end of a source without a trailing newline, is lexed as the
\* same token and renders the same output as when a space follows it: the
\* tight form compiles, its value token has the type and the text of the
\* spaced form's, and both forms, run to their end, have written the same
\* text.  (Violated: after the closing quote of a string lex_code expects a
\* space or a newline and finds the end of the block.)
C18_ValueAtBlockEnd ==
  \A pair \in TightPairs :
    /\ (code = pair.spaced /\ vars = TestVars /\ RunOk) => out = pair.text
    /\ (code = pair.tight /\ vars = TestVars) =>
         /\ ValueToken(pair.tight) = ValueToken(pair.spaced)
         /\ phase = "done" =>
              /\ ast_result.tag = "Ok"
              /\ ir_result.tag = "Ok"
              /\ NoFault
              /\ RunOk => out = pair.text

\* the loop headed by the CmpArrayEmptyJmp about to be executed has no
\* iteration: its start is at or past its end, clamped to the array's length
LoopIsEmpty(o) ==
  unwrap_or(o.start, 0) >= ClampedEnd(o.end, Len(get_array_var(o.name)))

\* C19: the program counter is incremented after every instruction that
\* succeeds, a taken jump included.  (a) A CmpArrayEmptyJmp jumps exactly when
\* its loop has no iteration, and the run resumes at the first instruction
\* after that loop's CmpCounterLessJmp, so that the literal after an empty
\* loop is still rendered: `{{ NONE[0:2] | "x" }}after` renders "after".
\* (b) A taken CmpCounterLessJmp resumes at the loop's LoadArrayItem, the
\* instruction after the loop's CmpArrayEmptyJmp.
C19_JumpThenIncrement ==
  [][/\ (phase = "run" /\ pc < Len(ops) /\ run_result' = Pending
           /\ ops[pc + 1].op \notin {"CmpArrayEmptyJmp", "CmpCounterLessJmp"}) =>
          pc' = pc + 1
     /\ Executing("CmpArrayEmptyJmp") =>
          IF LoopIsEmpty(ops[pc + 1])
          THEN /\ pc' = ops[pc + 1].op_index + 1
               /\ pc' <= Len(ops)
               /\ ops[pc'].op = "CmpCounterLessJmp"
               /\ ops[pc'].op_index = pc
          ELSE pc' = pc + 1
     /\ Executing("CmpCounterLessJmp") =>
          \/ pc' = pc + 1
          \/ /\ pc' = ops[pc + 1].op_index + 1
             /\ ops[pc'].op = "CmpArrayEmptyJmp"
             /\ ops[pc' + 1].op = "LoadArrayItem"
             /\ counter < Len(get_array_var(ops[pc' + 1].name))
     /\ (code = SrcLoopMissing /\ run_result' = Ok(TRUE)) =>
          out' = <<"a", "f", "t", "e", "r">>
    ]_state

\* the run of `{{ ARR[1:2] | "$(_index_)=$(_item_);" }}.` over an empty ARR
\* has skipped the loop and written the literal after it
C19_Witness ==
  /\ code = LoopSrc(Some(1), Some(2))
  /\ arrays = ArrOf(0)
  /\ RunOk
  /\ pc = Len(ops)
  /\ out = <<".">>

\* the instructions of `program` that are `op`, as 1-based positions
OpsAt(program, op) == {k \in 1..Len(program) : program[k].op = op}

\* the backward jumps after position k that target the instruction at k
ClosingJumps(program, k) ==
  {j \in OpsAt(program, "CmpCounterLessJmp") : j > k /\ program[j].op_index = k - 1}

\* the loop heads whose target is still the placeholder 0
Unpatched(program) ==
  {k \in OpsAt(program, "CmpArrayEmptyJmp") : program[k].op_index = 0}

\* C20: gen_ir has at most one loop pending: while a loop is pending exactly
\* one CmpArrayEmptyJmp, the one array_start names, holds the placeholder
\* target 0, and otherwise none does.  When gen_ir returns Ok no loop is
\* pending, every CmpArrayEmptyJmp is patched and is closed by exactly one
\* later CmpCounterLessJmp, whose target is that CmpArrayEmptyJmp and which
\* is the instruction the CmpArrayEmptyJmp jumps to; every CmpCounterLessJmp
\* closes a loop; and every jump, after the increment of the program
\* counter, lands at or before the program's length.
C20_LoopsClosed ==
  /\ Unpatched(ops) = IF array_start.some THEN {array_start.v[2] + 1} ELSE {}
  /\ ir_result.tag = "Ok" =>
       /\ array_start = None
       /\ \A k \in OpsAt(ir_result.val, "CmpArrayEmptyJmp") :
            /\ ir_result.val[k].op_index # 0
            /\ Cardinality(ClosingJumps(ir_result.val, k)) = 1
            /\ ClosingJumps(ir_result.val, k) = {ir_result.val[k].op_index + 1}
            /\ ir_result.val[k].op_index + 1 <= Len(ir_result.val)
       /\ \A j \in OpsAt(ir_result.val, "CmpCounterLessJmp") :
            /\ ir_result.val[j].op_index + 1 \in OpsAt(ir_result.val, "CmpArrayEmptyJmp")
            /\ ir_result.val[j].op_index + 1 < j

\* gen_ir has returned the program of two loops, one after the other
C20_Witness ==
  /\ code = SrcTwoLoops
  /\ ir_result.tag = "Ok"
  /\ Cardinality(OpsAt(ir_result.val, "CmpArrayEmptyJmp")) = 2
  /\ Cardinality(OpsAt(ir_result.val, "CmpCounterLessJmp")) = 2
  /\ array_start = None

\* `name` was bound by a PutScopeVar among the instructions before the
\* program counter, and no DestroyScope stands between that instruction and
\* the program counter
BoundSince(name) ==
  \E k \in 1..Min(pc, Len(ops)) :
    /\ ops[k].op = "PutScopeVar"
    /\ ops[k].name = name
    /\ \A j \in k + 1..Min(pc, Len(ops)) : ops[j].op # "DestroyScope"

\* C21: in every run of a generated program the scope map of the VM is
\* empty right after the terminal string of a pipe chain is flushed (the
\* Flush after a Collapse is followed by DestroyScope, after which the scope
\* is empty) and at the end of each loop iteration (at IncCounter); every
\* name the scope holds was bound in the chain or iteration under way, so
\* that no binding of `_`, `_item_` or `_index_` is readable in a later
\* chain or in the next iteration before it is bound again.
C21_ScopeCleared ==
  (ir_result.tag = "Ok" /\ phase \in {"run", "done"}) =>
    /\ \A name \in DOMAIN scope : BoundSince(name)
    /\ Executing("IncCounter") => scope = EmptyMap
    /\ \A k \in 1..Len(ops) - 1 :
         (ops[k].op = "Collapse" /\ ops[k + 1].op = "Flush") =>
           /\ k + 2 <= Len(ops)
           /\ ops[k + 2].op = "DestroyScope"
           /\ pc = k + 2 => scope = EmptyMap

\* `{{ 5 | "a" }}{{ _[0:1] }}`: the chain has written "a" and its binding
\* of `_` is gone when the second block fetches `_`
C21_Witness ==
  /\ code = SrcStaleSlice
  /\ phase = "done"
  /\ out = <<"a">>
  /\ scope = EmptyMap
  /\ run_result = Err("UndefinedScopeVar")

\* C22: every Name node immediately followed by a Range node in the raw node
\* stream is fused into one Array node, wherever the pair stands (at the
\* start of a block, after another name or value, in a macro body that is
\* expanded): in the node list ast returns no Range node follows a Name
\* node.  (Violated: the Name arm pushes the node after a name unexamined,
\* and a macro body is stored and expanded unfused.)
C22_NameRangeFused ==
  ast_result.tag = "Ok" =>
    \A k \in 2..Len(ast_result.val) :
      ~(/\ ast_result.val[k].inner.kind = "Range"
        /\ ast_result.val[k - 1].inner.kind = "Name")

\* C23: the node list ast returns holds no NewLine node, whatever precedes
\* the newline in the stream, and no MacroDef or MacroExp node.  (Violated:
\* the Name arm pushes the node after a name unexamined.)
C23_NoNewLineNoMarker ==
  ast_result.tag = "Ok" =>
    \A k \in 1..Len(ast_result.val) :
      ast_result.val[k].inner.kind \notin {"NewLine", "MacroDef", "MacroExp"}

\* the first position at or after k of the list given to gen_ir that holds
\* no NewLine node, or one past the end of the list
RECURSIVE SkipNewLines(_)
SkipNewLines(k) ==
  IF k > Len(nodes) \/ nodes[k].inner.kind # "NewLine" THEN k ELSE SkipNewLines(k + 1)

KindAt(k) == IF k >= 1 /\ k <= Len(nodes) THEN nodes[k].inner.kind ELSE "none"

\* the node at k is followed, NewLine nodes aside, by a Pipe node
PipeFollows(k) == KindAt(SkipNewLines(k + 1)) = "Pipe"

\* the first node after that Pipe that is not a NewLine
AfterPipe(k) == SkipNewLines(SkipNewLines(k + 1) + 1)

\* gen_ir is at a value node that a Pipe follows, NewLine nodes aside
AtPipedValue ==
  /\ phase = "gen_ir"
  /\ i < Len(nodes)
  /\ nodes[i + 1].inner.kind \in {"Int", "Name", "Array", "String"}
  /\ PipeFollows(i + 1)

\* the errors gen_ir raises on a pipe or on what follows it
PipeErrors == {"PipeNoParent", "SyntaxError", "TypeError", "ArrayNotPiped"}

\* C24: a value node (Int, Name, Array or String) followed by zero or more
\* NewLine nodes, a Pipe node, zero or more NewLine nodes and a String node
\* is treated as piped into that string and compiles as it does without the
\* NewLine nodes: gen_ir raises no error about the pipe at that value, and
\* the instruction it emits last binds the value (PutScopeVar).  (Violated:
\* expect_string is started at the node after the value's successor, which
\* is the Pipe itself when a NewLine node stands between value and Pipe.)
C24_PipedOverNewLines ==
  [][(AtPipedValue /\ KindAt(AfterPipe(i + 1)) = "String") =>
       /\ ir_result'.tag = "Err" => ir_result'.err.reason \notin PipeErrors
       /\ ir_result' = Pending => ops'[Len(ops')].op = "PutScopeVar"
    ]_state

\* what a TypeError reports for a node kind: ir.rs has no type for a Range,
\* which is reported as an Array
TypeOfKind(kind) == IF kind = "Range" THEN "Array" ELSE kind

\* C25: the right-hand side of every pipe must be a String node: when the
\* first node after a value's Pipe that is not a NewLine is an Int, Name,
\* Literal, Array or Range, gen_ir fails with TypeError (expected String,
\* got that kind) at that node's offset, unless the value itself is
\* rejected as an undefined reserved name; when no node follows, gen_ir
\* fails with a syntax error expecting a String; and no program is returned
\* in which a PutScopeVar of `_` has no string (Collapse) after it.
\* (Violated through C24: with a NewLine node between value and Pipe, gen_ir
\* reports PipeNoParent at the Pipe.)
C25_PipeNeedsString ==
  [][/\ (AtPipedValue
           /\ KindAt(AfterPipe(i + 1)) \in {"Int", "Name", "Literal", "Array", "Range"}) =>
          /\ ir_result'.tag = "Err"
          /\ \/ ir_result'.err.reason = "UndefinedVar"
             \/ ir_result' =
                  Err(new_type_error(nodes[AfterPipe(i + 1)].first_char, "String",
                                     TypeOfKind(KindAt(AfterPipe(i + 1)))))
     /\ (AtPipedValue /\ AfterPipe(i + 1) > Len(nodes)) =>
          /\ ir_result'.tag = "Err"
          /\ ir_result'.err.reason \in {"UndefinedVar", "SyntaxError"}
          /\ ir_result'.err.reason = "SyntaxError" => ir_result'.err.expected = <<"String">>
     /\ ir_result'.tag = "Ok" =>
          \A k \in 1..Len(ir_result'.val) :
            (ir_result'.val[k].op = "PutScopeVar" /\ ir_result'.val[k].name = Underscore) =>
              \E j \in k + 1..Len(ir_result'.val) : ir_result'.val[j].op = "Collapse"
    ]_state

\* the text "ARR[k];" for k = from, ..., to - 1
RECURSIVE ItemsText(_, _, _)
ItemsText(arr, from, to) ==
  IF from >= to THEN <<>>
  ELSE arr[from + 1] \o <<";">> \o ItemsText(arr, from + 1, to)

\* C26: a name made of uppercase letters only, written without a bracketed
\* range, is a reference to an array variable: it is resolved against the
\* external array table and drives iteration.  `{{ ARR | "$(_item_);" }}`
\* compiles and writes each element of ARR followed by `;`, and
\* `{{ ARR | "x;" }}` writes "x;" once per element of ARR.  (Violated: a
\* name without a range is a Name node, which gen_ir compiles to a fetch
\* from the string-variable table whatever its letters.)
C26_BareArrayName ==
  /\ (code = SrcBareArray /\ phase = "done") =>
       /\ ir_result.tag = "Ok"
       /\ NoFault
       /\ RunOk => out = ItemsText(ArrValue, 0, Len(ArrValue))
  /\ (code = SrcBareArrayPlain /\ phase = "done") =>
       /\ ir_result.tag = "Ok"
       /\ NoFault
       /\ RunOk => Iterations = Len(ArrValue)
  /\ (code \in {SrcBareArray, SrcBareArrayPlain} /\ ir_result.tag = "Ok") =>
       /\ \E k \in 1..Len(ir_result.val) : ir_result.val[k].op = "LoadArrayItem"
       /\ \A k \in 1..Len(ir_result.val) : ir_result.val[k].op # "PutName"

\* the offset of the first newline character of the source at or after
\* offset k, or the length of the source (the sources with macros are ASCII:
\* offsets count characters)
RECURSIVE NextNewLine(_)
NextNewLine(k) ==
  IF k >= Len(code) \/ code[k + 1] = "\n" THEN k ELSE NextNewLine(k + 1)

\* the positions, in the first pass's nodes, of the `@m` markers the second
\* pass has consumed
DefsOf(m) ==
  {d \in 1..Min(iter, Len(parsed)) :
     /\ parsed[d].inner.kind = "MacroDef"
     /\ macro_name(parsed[d], code) = Ok(m)}

\* the nodes of the first pass, NewLine nodes aside, that stand between
\* offsets from and to
NodesBetween(from, to) ==
  SelectSeq(parsed, LAMBDA n : /\ n.inner.kind # "NewLine"
                               /\ n.first_char > from
                               /\ n.first_char < to)

\* C27: the body of a macro definition is exactly the directive tokens
\* between the `@name` marker and the next newline character of the block,
\* whatever token stands directly before that newline (a name, an integer,
\* a string or a comment); no token after that newline is part of the body:
\* `{{ @m 5\n7 \n ?m }}` renders 7, then the body 5.  (Violated: the
\* newline that ends an integer or a name is consumed by find_boundary and
\* no NewLine token is emitted for it.)
C27_BodyEndsAtNewLine ==
  /\ \A m \in DOMAIN macro_table : \A d \in DefsOf(m) :
       macro_table[m] =
         NodesBetween(parsed[d].first_char, NextNewLine(parsed[d].first_char))
  /\ (code \in {SrcMacroTightInt, SrcMacroSpacedInt, SrcMacroComment} /\ RunOk) =>
       out = <<"7", "5">>
  /\ (code = SrcMacroString /\ RunOk) => out = <<"7", "s">>
  /\ (code = SrcMacroTightName /\ vars = TestVars /\ RunOk) => out = <<"7">> \o Cake

IsSuffix(a, b) == Len(a) <= Len(b) /\ SubSeq(b, Len(b) - Len(a) + 1, Len(b)) = a

\* the node at position k of the first pass's nodes is a `?m` marker of a
\* macro the table holds
ExpandsAt(k) ==
  /\ parsed[k].inner.kind = "MacroExp"
  /\ macro_name(parsed[k], code).tag = "Ok"
  /\ macro_name(parsed[k], code).val \in DOMAIN macro_table

\* C28: each `?m` expansion inserts, at its position in the output node
\* list, a copy of exactly the node list recorded when m was defined: a
\* step of the second pass that consumes the marker `?m` of a defined macro
\* leaves the recorded body of m at the end of the output; a macro may be
\* expanded any number of times and several macros coexist
\* (`{{ @x 1 | "$(_)" \n @y name \n ?y ?x ?y }}` renders cake, 1, cake);
\* and a step that consumes a `@m` marker appends no node to the output.
\* (Violated through C23: a marker that directly follows a name is pushed
\* to the output as it is.)
C28_ExpansionCopiesBody ==
  [][/\ (phase = "expand" /\ phase' = "expand") =>
          \A k \in iter + 1..Min(iter', Len(parsed)) :
            /\ ExpandsAt(k) =>
                 IsSuffix(macro_table[macro_name(parsed[k], code).val], expanded')
            /\ parsed[k].inner.kind = "MacroDef" =>
                 \A j \in Len(expanded) + 1..Len(expanded') :
                   expanded'[j].inner.kind # "MacroDef"
     /\ (Expanding("MacroDef") /\ phase' = "expand") => expanded' = expanded
     /\ (code = SrcMacroTwo /\ vars = TestVars /\ run_result' = Ok(TRUE)) =>
          out' = Cake \o <<"1">> \o Cake
    ]_state

\* C29: no VM instruction changes the external variable table or the
\* external array table: every step of every program leaves both as they
\* were given to Vm::new, and the program too; a step changes only the
\* program counter, the counter register, the stack and the scope map (and
\* writes to the sink or ends the run).
C29_TablesUnchanged ==
  [][/\ vars' = vars
     /\ arrays' = arrays
     /\ vars' \in {TestVars, ShadowVars}
     /\ arrays' \in {ArrOf(0), ArrOf(2)}
     /\ UNCHANGED <<code, ops, expansion, ast_result, nodes, i, array_start,
                    ir_scope, ir_result>>
    ]_state

\* the loop over ARR = [cake, cakolas] has run to its end, having bound
\* _item_ and _index_ twice, under a table that holds `_`
C29_Witness ==
  /\ ops = ProgLoop
  /\ vars = ShadowVars
  /\ arrays = ArrOf(2)
  /\ RunOk
  /\ counter = 2
  /\ out = Cake \o Cakolas \o <<".">>

\* C30: for every program gen_ir returns and all binding tables (empty
\* arrays, arrays missing from the table and ranges beyond the array's
\* length included) the VM raises neither EmptyStack nor ArrayIndexOverflow:
\* every PutScopeVar is executed with a non-empty stack and every
\* LoadArrayItem with the counter inside the array.
C30_NoStackOrIndexFault ==
  ir_result.tag = "Ok" =>
    /\ run_result \notin {Err("EmptyStack"), Err("ArrayIndexOverflow")}
    /\ Executing("PutScopeVar") => stack # <<>>
    /\ Executing("LoadArrayItem") =>
         counter < Len(get_array_var(ops[pc + 1].name))

\* ARR[0:100] over three elements: LoadArrayItem is about to read the last
\* element, at index 2
C30_Witness ==
  /\ code = SrcClampAll
  /\ ir_result.tag = "Ok"
  /\ Len(ArrValue) = 3
  /\ Executing("LoadArrayItem")
  /\ counter = 2

Twice(text) == text \o text

\* the sink holds some text two times over
WrittenTwice ==
  /\ Len(out) % 2 = 0
  /\ out = Twice(SubSeq(out, 1, Len(out) \div 2))

\* C31: Vm::clear_state sets the program counter to 0 and empties the operand
\* stack and the scope, and leaves the counter register (and the sink) as the
\* run left them; for a program produced by gen_ir, the run after clear_state
\* writes what the run on the fresh Vm wrote, whatever the counter was left
\* at (as long as the sink takes every write): when the second run returns,
\* the sink holds the same text twice, for the loops
\* `{{ ARR[s:e] | "$(_index_)=$(_item_);" }}.` twice the text
\* "k=ARR[k];" for k = s, ..., min(e, n) - 1 and ".", and for the scenario's
\* template twice " - cake(0)\n - cakolas(1)\n".
C31_RerunSameOutput ==
  [][/\ (phase = "done" /\ phase' = "rerun") =>
          /\ pc' = 0
          /\ stack' = <<>>
          /\ scope' = EmptyMap
          /\ counter' = counter
          /\ out' = out
     /\ (phase = "rerun" /\ phase' = "redone" /\ run_result' # Err("WriteError")) =>
          /\ WrittenTwice'
          /\ \A s \in OptBounds, e \in OptBounds :
               (code = LoopSrc(s, e) /\ run_result' = Ok(TRUE)) =>
                 out' = Twice(LoopText(ArrValue, unwrap_or(s, 0),
                                       ClampedEnd(e, Len(ArrValue))) \o <<".">>)
          /\ (code = SrcScenario /\ arrays = ArrOf(2) /\ run_result' = Ok(TRUE)) =>
               out' = Twice(ScenarioText)
    ]_state

\* the second run of a loop over the three items of ARR, started with the
\* counter at 3, has returned and the sink holds the three lines twice
C31_Witness ==
  /\ phase = "redone"
  /\ code = LoopSrc(None, None)
  /\ Len(ArrValue) = 3
  /\ counter = 3
  /\ run_result = Ok(TRUE)
  /\ out = Twice(LoopText(ArrValue, 0, 3) \o <<".">>)

\* what Vm::step returns without having executed an instruction; EndOfProgram
\* shows as the Ok(()) that Vm::run makes of it
StepFaults ==
  {Ok(TRUE), Err("EmptyStack"), Err("UndefinedScopeVar"), Err("ArrayIndexOverflow")}

\* C32: a call of Vm::step that returns EndOfProgram, EmptyStack,
\* UndefinedScopeVar or ArrayIndexOverflow leaves the program counter, the
\* counter register, the operand stack, the scope and the sink as they were;
\* Vm::step called again after such a return gives the same return; and a
\* call with the program counter at or past the end of the program returns
\* EndOfProgram, which no other call does, and writes nothing.
C32_FaultLeavesVm ==
  [][/\ (phase = "run" /\ run_result' \in StepFaults) =>
          UNCHANGED <<pc, counter, stack, scope, out>>
     /\ (phase = "run" /\ run_result \in StepFaults) =>
          /\ run_result' = run_result
          /\ phase' = "done"
     /\ (phase = "run" /\ pc >= Len(ops)) =>
          /\ run_result' = Ok(TRUE)
          /\ out' = out
     /\ (phase = "run" /\ run_result' = Ok(TRUE)) => pc >= Len(ops)
    ]_state

\* Vm::step has returned ArrayIndexOverflow at the LoadArrayItem of
\* ProgOverflow, after "a" was written, and is called again
C32_Witness ==
  /\ phase = "run"
  /\ ops = ProgOverflow
  /\ run_result = Err("ArrayIndexOverflow")
  /\ pc = 3
  /\ counter = 5
  /\ stack = <<>>
  /\ out = <<"a">>

====
